---- MODULE Spec2Model ----
(***************************************************************************)
(* The ticker subsystem of evennia/scripts/tickerhandler.py:               *)
(*   Ticker (interval timer), TickerPool (interval -> Ticker) and          *)
(*   TickerHandler (the registry: ticker_storage + persistence);           *)
(* the inputfuncs repeat and unrepeat of evennia/server/inputfuncs.py,     *)
(*   which subscribe a session to a ticker;                                *)
(* the AJAX long-polling client of evennia/server/portal/webclient_ajax.py:*)
(*   WebClient (requests, buffers, keepalive) and WebClientSession.        *)
(*                                                                         *)
(* Python values are modelled as follows.                                  *)
(*   None                      the string "None"                           *)
(*   a typeclassed entity      its name ("obj1"); it has db_key, and its   *)
(*                             pk is None once it is in `deleted`          *)
(*   a callback object         a token, classified by CallbackInfo         *)
(*   a dict                    a function; an absent key is outside DOMAIN *)
(*   an optional number        <<>> for None, <<n>> for the number n       *)
(*   a store_key               the 6-tuple of _store_key; Python's         *)
(*                             store_key[i] is the model's store_key[i+1]  *)
(***************************************************************************)
EXTENDS Integers, Sequences, FiniteSets, TLC

VARIABLES
    ticker_storage,   \* TickerHandler.ticker_storage: store_key -> value
    ticker_pool,      \* TickerHandler.ticker_pool: [tickers, orphans]
    persisted,        \* the ServerConfig record named save_name
    deleted,          \* entities whose database row is gone (pk is None)
    firings,          \* the calls of Ticker._callback that have not yet ended
    last,             \* the last completed call and what it reported
    now,              \* time(): the clock, in seconds
    requests,         \* WebClient.requests: suid -> the waiting request
    databuffer,       \* WebClient.databuffer: suid -> the buffered messages
    last_alive,       \* WebClient.last_alive: suid -> <<time, remove>>
    keep_alive,       \* WebClient.keep_alive: None or the running LoopingCall
    sessions,         \* the suids of the sessions the sessionhandler holds
    issued,           \* the suids that mode_init has given out
    pending,          \* the requests that wait for their response: id -> suid
    sent,             \* per suid, the data passed to lineSend so far
    got,              \* per suid, the message bodies its client has received
    wraised           \* the exception that the last call on the WebClient raised

\* the state of the AJAX web client and of what surrounds it
ajax == <<now, requests, databuffer, last_alive, keep_alive, sessions, issued,
          pending, sent, got, wraised>>

vars == <<ticker_storage, ticker_pool, persisted, deleted, firings, last, ajax>>

----------------------------------------------------------------------------
(* Bounds and input domains *)

MaxSubs == 2

NONE == "None"
EmptyDict == <<>>
NoNumber == <<>>

Entities == {"obj1"}

M_at_tick == "<bound method obj1.at_tick>"
F_func1 == "<function func1>"
\* a method of an object that is not a typeclassed entity (no db_key)
M_plain == "<bound method plain.update>"
\* a callable that is neither a method nor a function (an instance with __call__)
K_object == "<callable object>"
\* a value that is not callable
V_string == "at_tick (a string)"
\* the function _testrepeat of evennia/server/inputfuncs.py
F_testrepeat == "<function _testrepeat>"

CallbackInfo ==
    (M_at_tick :> [callable |-> TRUE, kind |-> "method", im_self |-> "obj1",
                   name |-> "at_tick", module |-> NONE])
 @@ (F_func1   :> [callable |-> TRUE, kind |-> "function", im_self |-> NONE,
                   name |-> "func1", module |-> "world"])
 @@ (M_plain   :> [callable |-> TRUE, kind |-> "method", im_self |-> "plain",
                   name |-> "update", module |-> NONE])
 @@ (K_object  :> [callable |-> TRUE, kind |-> "object", im_self |-> NONE,
                   name |-> NONE, module |-> NONE])
 @@ (V_string  :> [callable |-> FALSE, kind |-> "value", im_self |-> NONE,
                   name |-> NONE, module |-> NONE])
 @@ (F_testrepeat :> [callable |-> TRUE, kind |-> "function", im_self |-> NONE,
                      name |-> "_testrepeat", module |-> "evennia.server.inputfuncs"])

Callbacks == DOMAIN CallbackInfo

Intervals == {1, 2}

PayloadA == [args |-> <<"a">>, kwargs |-> ("n" :> "v")]
PayloadB == [args |-> <<>>, kwargs |-> EmptyDict]

\* The calls add(interval, callback, idstring, persistent, *args, **kwargs)
\* that callers make
AddCalls ==
    { <<1, M_at_tick, "", TRUE, PayloadA>>,
      <<1, F_func1, "", TRUE, PayloadA>>,
      <<1, F_func1, "", TRUE, PayloadB>>,
      <<1, F_func1, "", FALSE, PayloadB>>,
      <<2, F_func1, "", TRUE, PayloadA>> }

\* The calls remove(interval, callback, idstring) that callers make
RemoveCalls == { <<c[1], c[2], c[3]>> : c \in AddCalls }

\* add calls with arguments at and beyond the edge of what add documents:
\* interval 0, a value that is not callable, a callable that is neither a
\* method nor a function, and a method of an object that is not an entity
AddCallsEdge ==
    { <<0, F_func1, "", TRUE, PayloadB>>,
      <<1, V_string, "", TRUE, PayloadB>>,
      <<1, K_object, "", TRUE, PayloadB>>,
      <<1, M_plain, "", TRUE, PayloadB>>,
      <<1, F_func1, "", TRUE, PayloadB>>,
      <<1, M_at_tick, "", TRUE, PayloadB>> }

RemoveCallsEdge == { <<c[1], c[2], c[3]>> : c \in AddCallsEdge }

\* The calls clear(interval) that callers make; <<>> is clear()
ClearCalls == {NoNumber} \cup {<<n>> : n \in Intervals}

ReservedKeys == {"_callback", "_obj", "_start_delay"}

\* The suids that mode_init gives out; "0" is the suid of a request that has
\* none.
Suids == {"s1", "s2"}
NoSuid == "0"
RequestSuids == Suids \cup {NoSuid}

\* _KEEPALIVE: how often to check keepalive
_KEEPALIVE == 30

\* The clock advances in steps of TickStep seconds up to MaxTime.
TickStep == 30
MaxTime == 120

\* the most messages the server sends to one session
MaxSent == 2

\* the commands of the messages the server sends to a session
ServerCmds == {"text", "prompt"}

\* session.sessid of the sessions that send the repeat and unrepeat commands
\* (integers, written here by their digits)
Sessids == {"1", "2"}

\* The kwargs a client sends with repeat/unrepeat; <<>> is a missing entry.
\* "look" is a name that _repeatable does not hold.
RepeatKwargs ==
    [interval : {<<>>, <<1>>, <<5>>, <<7>>},
     callback : {<<>>, <<"test1">>, <<"test2">>, <<"look">>},
     stop : {<<>>, <<TRUE>>}]

\* the intervals that repeat can pass on: max(5, n) of the above, and 60
RepeatIntervals == {5, 7, 60}

----------------------------------------------------------------------------
(* Python helpers *)

\* dict.get(key, default) / the value part of dict.pop(key, default)
DictGet(d, k, default) == IF k \in DOMAIN d THEN d[k] ELSE default

\* d[k] = v
DictSet(d, k, v) == [x \in DOMAIN d \cup {k} |-> IF x = k THEN v ELSE d[x]]

\* the dict left by d.pop(k, ...)
DictDel(d, k) == [x \in DOMAIN d \ {k} |-> d[x]]

\* A store_key item as a typed Python value, so that items of different
\* Python types compare unequal instead of being confused.
KeyItem(store_key, i) ==
    CASE i = 3 -> <<"int", store_key[4]>>
      [] i = 5 -> <<"bool", store_key[6]>>
      [] OTHER -> <<"str", store_key[i + 1]>>

PyInt(n) == <<"int", n>>

\* start_delays.get(item, None) for a dict keyed by integers
IntDictGet(d, item, default) ==
    IF item[1] = "int" /\ item[2] \in DOMAIN d THEN d[item[2]] ELSE default

AllPerms(S) ==
    { s \in [1..Cardinality(S) -> S] : \A a \in S : \E i \in DOMAIN s : s[i] = a }

----------------------------------------------------------------------------
(* ExtendedLoopingCall (evennia/scripts/scripts.py): the periodic task *)

Max(a, b) == IF a >= b THEN a ELSE b

\* task.start(interval, now=False, start_delay=start_delay): the first call is
\* start_delay from now if one is given, a full interval otherwise. `call` says
\* that the reactor holds a delayed call of the task (task.call is not None).
ExtendedLoopingCall_start(ticker, interval, start_delay) ==
    [ticker EXCEPT !.running = TRUE,
                   !.call = TRUE,
                   !.remaining = IF start_delay = NoNumber THEN interval
                                 ELSE Max(0, start_delay[1])]

\* task.stop(): cancels the delayed call if there is one
ExtendedLoopingCall_stop(ticker) ==
    [ticker EXCEPT !.running = FALSE, !.call = FALSE, !.remaining = 0]

\* task.next_call_time(): seconds until the next call, None when not running
next_call_time(ticker) ==
    IF ticker.running THEN <<ticker.remaining>> ELSE NoNumber

\* after a call has completed the task is scheduled one interval later, if
\* it is (still, or again) running
ExtendedLoopingCall_reschedule(ticker) ==
    IF ticker.running THEN [ticker EXCEPT !.call = TRUE, !.remaining = ticker.interval]
    ELSE ticker

\* the reactor makes the delayed call: task.call = None while it is under way
ExtendedLoopingCall_called(ticker) ==
    [ticker EXCEPT !.call = FALSE]

\* the call has failed: the task stops and is not scheduled again
ExtendedLoopingCall_failed(ticker) ==
    [ticker EXCEPT !.running = FALSE]

----------------------------------------------------------------------------
(* class Ticker *)

\* Ticker.__init__
Ticker_init(interval) ==
    [interval |-> interval, subscriptions |-> EmptyDict,
     running |-> FALSE, call |-> FALSE, remaining |-> 0]

\* Ticker.validate that starts the task anew when it is already running
Ticker_validate_restarts(ticker, start_delay) ==
    IF ticker.subscriptions = EmptyDict
    THEN IF ticker.running THEN ExtendedLoopingCall_stop(ticker) ELSE ticker
    ELSE ExtendedLoopingCall_start(ticker, ticker.interval, start_delay)

\* Ticker.validate
Ticker_validate(ticker, start_delay) ==
    IF ticker.running
    THEN IF ticker.subscriptions = EmptyDict
         THEN ExtendedLoopingCall_stop(ticker)
         ELSE ticker
    ELSE IF ticker.subscriptions # EmptyDict
         THEN ExtendedLoopingCall_start(ticker, ticker.interval, start_delay)
         ELSE ticker

\* Ticker.add that leaves _start_delay in the kwargs it stores
Ticker_add_keeps_start_delay(ticker, store_key, args, kwargs) ==
    LET start_delay == DictGet(kwargs, "_start_delay", NoNumber)
        t1 == [ticker EXCEPT !.subscriptions =
                   DictSet(ticker.subscriptions, store_key,
                           [args |-> args, kwargs |-> kwargs])]
    IN Ticker_validate(t1, start_delay)

\* Ticker.add
Ticker_add(ticker, store_key, args, kwargs) ==
    LET start_delay == DictGet(kwargs, "_start_delay", NoNumber)
        kw == DictDel(kwargs, "_start_delay")
        t1 == [ticker EXCEPT !.subscriptions =
                   DictSet(ticker.subscriptions, store_key,
                           [args |-> args, kwargs |-> kw])]
    IN Ticker_validate(t1, start_delay)

\* Ticker.remove
Ticker_remove(ticker, store_key) ==
    Ticker_validate(
        [ticker EXCEPT !.subscriptions = DictDel(ticker.subscriptions, store_key)],
        NoNumber)

\* Ticker.stop
Ticker_stop(ticker) ==
    Ticker_validate([ticker EXCEPT !.subscriptions = EmptyDict], NoNumber)

\* callable(x)
IsCallable(x) == x \in Callbacks /\ CallbackInfo[x].callable

\* obj has the attribute pk (it is a database entity)
HasPk(obj) == obj \in Entities

\* getattr(obj, name) finds a method
HasMethod(obj, name) ==
    \E c \in Callbacks : /\ CallbackInfo[c].kind = "method"
                         /\ CallbackInfo[c].im_self = obj
                         /\ CallbackInfo[c].name = name

\* What a callable does when it is invoked: chosen by the environment.
Behaviours == {"return", "raise", "raise_dne"}

\* Subscriber_step with a generic exception treated like ObjectDoesNotExist
Subscriber_step_unsubscribes_on_error(sub, does) ==
    LET callback == DictGet(sub.kwargs, "_callback", "at_tick")
        obj == DictGet(sub.kwargs, "_obj", NONE)
        passed == DictDel(DictDel(sub.kwargs, "_callback"), "_obj")
        restored == DictSet(DictSet(passed, "_callback", callback), "_obj", obj)
        result == IF IsCallable(callback) THEN does
                  ELSE IF obj = NONE THEN "gone"
                  ELSE IF ~HasPk(obj) THEN "lookup_error"
                  ELSE IF obj \in deleted THEN "gone"
                  ELSE IF HasMethod(obj, callback) THEN does
                  ELSE "lookup_error"
        called == result \in Behaviours
    IN [called |-> called,
        args |-> IF called THEN sub.args ELSE <<>>,
        kwargs |-> IF called THEN passed ELSE EmptyDict,
        result |-> result,
        remove |-> result \in {"gone", "raise_dne", "raise"},
        sub |-> [args |-> sub.args, kwargs |-> restored]]

\* Subscriber_step without the test of obj.pk
Subscriber_step_ignores_pk(sub, does) ==
    LET callback == DictGet(sub.kwargs, "_callback", "at_tick")
        obj == DictGet(sub.kwargs, "_obj", NONE)
        passed == DictDel(DictDel(sub.kwargs, "_callback"), "_obj")
        restored == DictSet(DictSet(passed, "_callback", callback), "_obj", obj)
        result == IF IsCallable(callback) THEN does
                  ELSE IF obj = NONE THEN "gone"
                  ELSE IF HasMethod(obj, callback) THEN does
                  ELSE "lookup_error"
        called == result \in Behaviours
    IN [called |-> called,
        args |-> IF called THEN sub.args ELSE <<>>,
        kwargs |-> IF called THEN passed ELSE EmptyDict,
        result |-> result,
        remove |-> result \in {"gone", "raise_dne"},
        sub |-> [args |-> sub.args, kwargs |-> restored]]

\* One pass of the loop body of Ticker._callback for one subscription;
\* `does` is what the callable does if it is invoked.
\*   result: "return" | "raise" (caught, logged) | "raise_dne"
\*           (ObjectDoesNotExist: removed) | "gone" (removed, never invoked)
\*           | "lookup_error" (the lookup of obj.pk or of the method raised:
\*           caught, logged)
Subscriber_step(sub, does) ==
    LET callback == DictGet(sub.kwargs, "_callback", "at_tick")
        obj == DictGet(sub.kwargs, "_obj", NONE)
        passed == DictDel(DictDel(sub.kwargs, "_callback"), "_obj")
        restored == DictSet(DictSet(passed, "_callback", callback), "_obj", obj)
        result == IF IsCallable(callback) THEN does
                  ELSE IF obj = NONE THEN "gone"
                  ELSE IF ~HasPk(obj) THEN "lookup_error"
                  ELSE IF obj \in deleted THEN "gone"
                  ELSE IF HasMethod(obj, callback) THEN does
                  ELSE "lookup_error"
        called == result \in Behaviours
    IN [called |-> called,
        args |-> IF called THEN sub.args ELSE <<>>,
        kwargs |-> IF called THEN passed ELSE EmptyDict,
        result |-> result,
        remove |-> result \in {"gone", "raise_dne"},
        sub |-> [args |-> sub.args, kwargs |-> restored]]

RECURSIVE Ticker_remove_all(_, _)
\* the cleanup loop of Ticker._callback: self.remove(store_key) for each
Ticker_remove_all(ticker, to_remove) ==
    IF to_remove = {} THEN ticker
    ELSE LET k == CHOOSE x \in to_remove : TRUE
         IN Ticker_remove_all(Ticker_remove(ticker, k), to_remove \ {k})

\* Ticker._callback: one firing; does[store_key] is what each callable does.
\* Returns the ticker afterwards and the log of the firing.
Ticker__callback(ticker, does) ==
    LET subs == ticker.subscriptions
        step == [k \in DOMAIN subs |-> Subscriber_step(subs[k], does[k])]
        t1 == [ticker EXCEPT !.subscriptions = [k \in DOMAIN subs |-> step[k].sub]]
        to_remove == {k \in DOMAIN subs : step[k].remove}
    IN [ticker |-> ExtendedLoopingCall_reschedule(Ticker_remove_all(t1, to_remove)),
        log |-> [k \in DOMAIN subs |->
                    [called |-> step[k].called, args |-> step[k].args,
                     kwargs |-> step[k].kwargs, result |-> step[k].result]]]

----------------------------------------------------------------------------
(* Ticker._callback step by step. It is a generator under @inlineCallbacks:  *)
(* at the `yield` of the callback's call it is suspended when the callback  *)
(* returns a Deferred, and goes on when that Deferred fires. A frame is one   *)
(* such call that has not ended:                                              *)
(*   id         tells the frames apart                                        *)
(*   interval   of the Ticker (self)                                          *)
(*   size       len(self.subscriptions) when iteritems() was created          *)
(*   snapshot   the keys the dict had then                                    *)
(*   visited    the keys the iterator has yielded                             *)
(*   cur        <<k>> while suspended in the call for store_key k             *)
(*   held       the subscription of k with the popped _callback and _obj      *)
(*   in_hand    the (args, kwargs) in hand is still the dict's value of k     *)
(*   to_remove, log   as in Ticker__callback                                  *)
(*   detached   <<d>> once self.subscriptions has been rebound by stop():     *)
(*              the iterator goes on over the old dict d                      *)

MaxFirings == 2

\* what a callable does when it is invoked, or "defer": it returns a Deferred
\* that has not fired yet
CallOutcomes == Behaviours \cup {"defer"}

\* the frame of a call of Ticker._callback that is about to enter its loop
Frame_new(id, ticker) ==
    [id |-> id, interval |-> ticker.interval,
     size |-> Cardinality(DOMAIN ticker.subscriptions),
     snapshot |-> DOMAIN ticker.subscriptions,
     visited |-> {}, cur |-> <<>>, held |-> EmptyDict, in_hand |-> FALSE,
     to_remove |-> {}, log |-> EmptyDict, detached |-> <<>>]

\* the dict the frame's iterator walks
Frame_dict(frame, ticker) ==
    IF frame.detached # <<>> THEN frame.detached[1] ELSE ticker.subscriptions

\* one of the dict's values is changed in place (kwargs.pop, kwargs[...] = ...)
Frame_put(st, k, sub) ==
    IF st.frame.detached # <<>>
    THEN [st EXCEPT !.frame.detached = <<DictSet(st.frame.detached[1], k, sub)>>]
    ELSE [st EXCEPT !.ticker.subscriptions = DictSet(st.ticker.subscriptions, k, sub)]

RECURSIVE Frame_run(_, _, _, _)
\* The loop of Ticker._callback from its head until the generator is suspended
\* or ends; st is [frame, ticker, status]. The iterator raises RuntimeError
\* when the dict's size is not the size it had when the iterator was made;
\* the `for` statement is outside the try block.
Frame_run(st, order, i, does) ==
    LET d == Frame_dict(st.frame, st.ticker)
    IN IF Cardinality(DOMAIN d) # st.frame.size
       THEN [st EXCEPT !.status = "failed"]
       ELSE IF i > Len(order)
       THEN [st EXCEPT !.status = "ended"]
       ELSE LET k == order[i]
                s == Subscriber_step(d[k], IF does[k] = "defer" THEN "return"
                                           ELSE does[k])
                f1 == [st.frame EXCEPT !.visited = @ \cup {k}]
            IN IF does[k] = "defer" /\ s.called
               THEN Frame_put([st EXCEPT !.status = "suspended",
                                         !.frame = [f1 EXCEPT !.cur = <<k>>,
                                                              !.held = s.sub,
                                                              !.in_hand = TRUE]],
                              k, [args |-> s.args, kwargs |-> s.kwargs])
               ELSE Frame_run(
                      Frame_put([st EXCEPT !.frame =
                                    [f1 EXCEPT !.to_remove =
                                                  @ \cup IF s.remove THEN {k} ELSE {},
                                               !.log = DictSet(@, k,
                                                  [called |-> s.called, args |-> s.args,
                                                   kwargs |-> s.kwargs,
                                                   result |-> s.result])]],
                                k, s.sub),
                      order, i + 1, does)

\* The Deferred of the call in hand has fired with `result`: the except and
\* finally clauses of the loop body
Frame_resumed(st, result) ==
    LET k == st.frame.cur[1]
        passed == DictDel(DictDel(st.frame.held.kwargs, "_callback"), "_obj")
        f1 == [st.frame EXCEPT !.cur = <<>>, !.held = EmptyDict, !.in_hand = FALSE,
                               !.to_remove = @ \cup IF result = "raise_dne"
                                                    THEN {k} ELSE {},
                               !.log = DictSet(@, k,
                                          [called |-> TRUE, args |-> st.frame.held.args,
                                           kwargs |-> passed, result |-> result])]
    IN IF st.frame.in_hand
       THEN Frame_put([st EXCEPT !.frame = f1], k, st.frame.held)
       ELSE [st EXCEPT !.frame = f1]

\* the orders in which the iterator may yield what it has not yet yielded:
\* the keys of the dict when the iterator was made, and possibly keys that
\* were inserted since
Frame_orders(frame, ticker) ==
    LET rest == DOMAIN Frame_dict(frame, ticker) \ frame.visited
    IN UNION {AllPerms(S) : S \in {T \in SUBSET rest : rest \cap frame.snapshot \subseteq T}}

\* a subscription of the ticker's dict has been replaced or popped: a frame
\* suspended in its call no longer holds a value of the dict
Frames_orphaned(frames, interval, keys) ==
    {IF f.interval = interval /\ f.detached = <<>> /\ f.cur # <<>> /\ f.cur[1] \in keys
     THEN [f EXCEPT !.in_hand = FALSE] ELSE f : f \in frames}

\* Ticker.stop has rebound self.subscriptions of the tickers of `stopped`:
\* their frames go on over the dict as it was
Frames_detached(frames, pool, stopped) ==
    {IF f.interval \in stopped /\ f.detached = <<>> /\ f.interval \in DOMAIN pool.tickers
     THEN [f EXCEPT !.detached = <<pool.tickers[f.interval].subscriptions>>]
     ELSE f : f \in frames}

----------------------------------------------------------------------------
(* class TickerPool; the pool is [tickers, orphans]: `tickers` is            *)
(* self.tickers, `orphans` holds the tickers the pool no longer references   *)
(* whose task is still running in the reactor.                               *)

\* self.tickers[interval] = ticker
Pool_setitem(pool, interval, ticker) ==
    [tickers |-> DictSet(pool.tickers, interval, ticker),
     orphans |-> pool.orphans \cup
                 IF interval \in DOMAIN pool.tickers /\ pool.tickers[interval].running
                 THEN {pool.tickers[interval]} ELSE {}]

\* del self.tickers[interval]
Pool_delitem(pool, interval) ==
    [tickers |-> DictDel(pool.tickers, interval),
     orphans |-> pool.orphans \cup
                 IF pool.tickers[interval].running
                 THEN {pool.tickers[interval]} ELSE {}]

\* bool(ticker): class Ticker defines neither __nonzero__ nor __len__
Ticker_truth(ticker) == TRUE

\* TickerPool.add raises: with a falsy interval it formats _ERROR_ADD_TICKER,
\* whose field is {storekey}, with the keyword store_key, which is a KeyError
TickerPool_add_raises(store_key) == store_key[4] = 0

\* TickerPool.add without the test `interval not in self.tickers`
TickerPool_add_always_creates(pool, store_key, args, kwargs) ==
    LET interval == store_key[4]
    IN IF interval = 0 THEN pool
       ELSE LET p1 == Pool_setitem(pool, interval, Ticker_init(interval))
            IN [p1 EXCEPT !.tickers[interval] = Ticker_add(@, store_key, args, kwargs)]

\* TickerPool.add
TickerPool_add(pool, store_key, args, kwargs) ==
    LET interval == store_key[4]
    IN IF interval = 0 THEN pool
       ELSE LET p1 == IF interval \notin DOMAIN pool.tickers
                      THEN Pool_setitem(pool, interval, Ticker_init(interval))
                      ELSE pool
            IN [p1 EXCEPT !.tickers[interval] = Ticker_add(@, store_key, args, kwargs)]

\* TickerPool.remove
TickerPool_remove(pool, store_key) ==
    LET interval == store_key[4]
    IN IF interval \in DOMAIN pool.tickers
       THEN LET p1 == [pool EXCEPT !.tickers[interval] = Ticker_remove(@, store_key)]
            IN IF ~Ticker_truth(p1.tickers[interval])
               THEN Pool_delitem(p1, interval)
               ELSE p1
       ELSE pool

\* TickerPool.stop; interval is None (<<>>) or a number (<<n>>)
TickerPool_stop(pool, interval) ==
    IF interval # NoNumber /\ interval[1] # 0 /\ interval[1] \in DOMAIN pool.tickers
    THEN [pool EXCEPT !.tickers[interval[1]] = Ticker_stop(@)]
    ELSE [pool EXCEPT !.tickers = [i \in DOMAIN pool.tickers |-> Ticker_stop(pool.tickers[i])]]

----------------------------------------------------------------------------
(* dbserialize / dbunserialize (evennia/utils/dbserialize.py) *)

PackedRef == [e \in Entities |-> "#" \o e]

\* an entity is stored as its persistent identifier
Pack(x) == IF x \in Entities THEN PackedRef[x] ELSE x

\* ... and comes back as the entity, or as None when it no longer exists
Unpack(x) ==
    IF \E e \in Entities : PackedRef[e] = x
    THEN LET e == CHOOSE e \in Entities : PackedRef[e] = x
         IN IF e \in deleted THEN NONE ELSE e
    ELSE x

PackKey(store_key) == [store_key EXCEPT ![1] = Pack(@)]
UnpackKey(store_key) == [store_key EXCEPT ![1] = Unpack(@)]

PackKwargs(kwargs) ==
    [n \in DOMAIN kwargs |-> IF n = "_obj" THEN Pack(kwargs[n]) ELSE kwargs[n]]
UnpackKwargs(kwargs) ==
    [n \in DOMAIN kwargs |-> IF n = "_obj" THEN Unpack(kwargs[n]) ELSE kwargs[n]]

\* a ticker_storage value of the form (args, kwargs)
IsPair(value) == "args" \in DOMAIN value

\* dbserialize(self.ticker_storage), for a storage of (args, kwargs) values
dbserialize(storage) ==
    LET keys == {PackKey(k) : k \in DOMAIN storage}
    IN [pk \in keys |->
           LET k == CHOOSE k \in DOMAIN storage : PackKey(k) = pk
           IN [args |-> storage[k].args, kwargs |-> PackKwargs(storage[k].kwargs)]]

----------------------------------------------------------------------------
(* class TickerHandler: pure parts *)

\* isinstance(x, basestring)
IsString(x) == x # NONE /\ x \notin Callbacks /\ x \notin Entities

\* hasattr(obj, "db_key")
HasDbKey(obj) == obj \in Entities

\* "%s.%s" % (callback.__module__, callback.func_name)
PathOf(callback) == CallbackInfo[callback].module \o "." \o CallbackInfo[callback].name

\* variable_from_module(*path.rsplit(".", 1)) (evennia/utils/utils.py)
variable_from_module(path) ==
    IF \E c \in Callbacks : CallbackInfo[c].kind = "function" /\ PathOf(c) = path
    THEN CHOOSE c \in Callbacks : CallbackInfo[c].kind = "function" /\ PathOf(c) = path
    ELSE NONE

\* TickerHandler._get_callback
TickerHandler__get_callback(callback) ==
    LET info == CallbackInfo[callback]
    IN IF info.callable
       THEN IF info.kind = "method"
            THEN [obj |-> info.im_self, path |-> NONE, raised |-> "",
                  callfunc |-> info.name]
            ELSE IF info.kind = "function"
            THEN [obj |-> NONE, path |-> PathOf(callback), raised |-> "",
                  callfunc |-> callback]
            ELSE [obj |-> NONE, path |-> NONE, raised |-> "", callfunc |-> NONE]
       ELSE [obj |-> NONE, path |-> NONE, raised |-> "TypeError", callfunc |-> NONE]

\* TickerHandler._store_key
TickerHandler__store_key(obj, path, interval, callfunc, idstring, persistent) ==
    LET outobj == IF obj # NONE /\ HasDbKey(obj) THEN obj ELSE NONE
        outpath == IF path # NONE /\ IsString(path) THEN path ELSE NONE
        methodname == IF callfunc # NONE /\ IsString(callfunc) THEN callfunc ELSE NONE
    IN <<outobj, methodname, outpath, interval, idstring, persistent>>

\* ServerConfig.objects.conf(key=self.save_name, delete=True): nothing is stored
ConfDeleted == [value |-> EmptyDict, saved |-> FALSE]

\* TickerHandler.save without its else branch: an empty table leaves the
\* record as it is
TickerHandler_save_never_deletes(storage, pool, pers) ==
    IF storage # EmptyDict
    THEN LET start_delays == [i \in DOMAIN pool.tickers |->
                                 next_call_time(pool.tickers[i])]
             updated(k) ==
                 [args |-> storage[k].args,
                  kwargs |-> DictSet(storage[k].kwargs, "_start_delay",
                                     IntDictGet(start_delays, KeyItem(k, 1), NoNumber))]
             pairs == {k \in DOMAIN storage : IsPair(storage[k])}
         IN IF pairs = DOMAIN storage
            THEN LET st == [k \in DOMAIN storage |-> updated(k)]
                 IN {[raised |-> "", ticker_storage |-> st,
                      persisted |-> [value |-> dbserialize(st), saved |-> TRUE]]}
            ELSE {[raised |-> "ValueError",
                   ticker_storage |-> [k \in DOMAIN storage |->
                                          IF k \in done THEN updated(k) ELSE storage[k]],
                   persisted |-> pers] : done \in SUBSET pairs}
    ELSE {[raised |-> "", ticker_storage |-> storage, persisted |-> pers]}

\* TickerHandler.save: the possible outcomes [raised, ticker_storage, persisted].
\* A value that is not an (args, kwargs) pair makes the loop raise ValueError
\* after it has updated the entries the dict happened to yield before it.
TickerHandler_save(storage, pool, pers) ==
    IF storage # EmptyDict
    THEN LET start_delays == [i \in DOMAIN pool.tickers |->
                                 next_call_time(pool.tickers[i])]
             updated(k) ==
                 [args |-> storage[k].args,
                  kwargs |-> DictSet(storage[k].kwargs, "_start_delay",
                                     IntDictGet(start_delays, KeyItem(k, 1), NoNumber))]
             pairs == {k \in DOMAIN storage : IsPair(storage[k])}
         IN IF pairs = DOMAIN storage
            THEN LET st == [k \in DOMAIN storage |-> updated(k)]
                 IN {[raised |-> "", ticker_storage |-> st,
                      persisted |-> [value |-> dbserialize(st), saved |-> TRUE]]}
            ELSE {[raised |-> "ValueError",
                   ticker_storage |-> [k \in DOMAIN storage |->
                                          IF k \in done THEN updated(k) ELSE storage[k]],
                   persisted |-> pers] : done \in SUBSET pairs}
    ELSE {[raised |-> "", ticker_storage |-> storage,
           persisted |-> ConfDeleted]}

\* Restore_entry that skips every non-persistent entry, reload or not
Restore_entry_ignores_reload(store_key, value, server_reload) ==
    LET obj == store_key[1]
        methodname == store_key[2]
        path == store_key[3]
        persistent == store_key[6]
        kwargs == value.kwargs
    IN IF ~persistent
       THEN [keep |-> FALSE, args |-> value.args, kwargs |-> kwargs]
       ELSE IF obj # NONE /\ methodname # NONE
       THEN [keep |-> TRUE, args |-> value.args,
             kwargs |-> DictSet(DictSet(kwargs, "_callback", methodname), "_obj", obj)]
       ELSE IF path # NONE
       THEN [keep |-> TRUE, args |-> value.args,
             kwargs |-> DictSet(DictSet(kwargs, "_callback", variable_from_module(path)),
                                "_obj", NONE)]
       ELSE [keep |-> TRUE, args |-> value.args, kwargs |-> kwargs]

\* Restore_entry without the test of `persistent`
Restore_entry_keeps_all(store_key, value, server_reload) ==
    LET obj == store_key[1]
        methodname == store_key[2]
        path == store_key[3]
        kwargs == value.kwargs
    IN IF obj # NONE /\ methodname # NONE
       THEN [keep |-> TRUE, args |-> value.args,
             kwargs |-> DictSet(DictSet(kwargs, "_callback", methodname), "_obj", obj)]
       ELSE IF path # NONE
       THEN [keep |-> TRUE, args |-> value.args,
             kwargs |-> DictSet(DictSet(kwargs, "_callback", variable_from_module(path)),
                                "_obj", NONE)]
       ELSE [keep |-> TRUE, args |-> value.args, kwargs |-> kwargs]

\* The body of the try block of TickerHandler.restore for one entry
Restore_entry(store_key, value, server_reload) ==
    LET obj == store_key[1]
        methodname == store_key[2]
        path == store_key[3]
        persistent == store_key[6]
        kwargs == value.kwargs
    IN IF ~persistent /\ ~server_reload
       THEN [keep |-> FALSE, args |-> value.args, kwargs |-> kwargs]
       ELSE IF obj # NONE /\ methodname # NONE
       THEN [keep |-> TRUE, args |-> value.args,
             kwargs |-> DictSet(DictSet(kwargs, "_callback", methodname), "_obj", obj)]
       ELSE IF path # NONE
       THEN [keep |-> TRUE, args |-> value.args,
             kwargs |-> DictSet(DictSet(kwargs, "_callback", variable_from_module(path)),
                                "_obj", NONE)]
       ELSE [keep |-> TRUE, args |-> value.args, kwargs |-> kwargs]

\* a key that unpacks into the six items of a store_key
IsStoreKey(store_key) == Len(store_key) = 6

\* dbunserialize of one persisted value
UnpackValue(value) ==
    IF IsPair(value)
    THEN [args |-> value.args, kwargs |-> UnpackKwargs(value.kwargs)]
    ELSE value

RECURSIVE Restore_loop(_, _, _, _, _)
\* The loop of TickerHandler.restore over the entries in the order `order`;
\* st is [local, assigned, ticker_pool, raised]: the local dict ticker_storage,
\* whether self.ticker_storage has been rebound to it, the pool, and the
\* exception that has ended the loop. Unpacking the value in the `for` header
\* and self.ticker_pool.add are outside the try block.
Restore_loop(order, i, restored, server_reload, st) ==
    IF i > Len(order) \/ st.raised # "" THEN st
    ELSE LET k == order[i]
         IN IF ~IsPair(restored[k])
            THEN [st EXCEPT !.raised = "ValueError"]
            ELSE IF ~IsStoreKey(k)
            THEN Restore_loop(order, i + 1, restored, server_reload, st)
            ELSE LET e == Restore_entry(k, restored[k], server_reload)
                 IN IF ~e.keep
                    THEN Restore_loop(order, i + 1, restored, server_reload, st)
                    ELSE Restore_loop(order, i + 1, restored, server_reload,
                           [local |-> DictSet(st.local, k,
                                              [args |-> e.args, kwargs |-> e.kwargs]),
                            assigned |-> TRUE,
                            ticker_pool |-> TickerPool_add(st.ticker_pool, k,
                                                           e.args, e.kwargs),
                            raised |-> IF TickerPool_add_raises(k)
                                       THEN "KeyError" ELSE ""])

\* TickerHandler.restore: the possible outcomes [ticker_storage, ticker_pool,
\* raised], one for each order in which the dict may yield its entries
TickerHandler_restore(storage, pool, pers, server_reload) ==
    IF ~pers.saved
    THEN {[ticker_storage |-> storage, ticker_pool |-> pool, raised |-> ""]}
    ELSE LET keys == {UnpackKey(pk) : pk \in DOMAIN pers.value}
             picks == {f \in [keys -> DOMAIN pers.value] :
                          \A k \in keys : UnpackKey(f[k]) = k}
             outcome(pick, order) ==
                 LET restored == [k \in keys |-> UnpackValue(pers.value[pick[k]])]
                     st == Restore_loop(order, 1, restored, server_reload,
                               [local |-> EmptyDict, assigned |-> FALSE,
                                ticker_pool |-> pool, raised |-> ""])
                 IN [ticker_storage |-> IF st.assigned THEN st.local ELSE storage,
                     ticker_pool |-> st.ticker_pool,
                     raised |-> st.raised]
         IN {outcome(pick, order) : pick \in picks, order \in AllPerms(keys)}

\* TickerHandler.all(interval): None (<<>>) when no ticker has that interval
TickerHandler_all(pool, interval) ==
    IF interval \in DOMAIN pool.tickers /\ Ticker_truth(pool.tickers[interval])
    THEN <<(interval :> pool.tickers[interval].subscriptions)>>
    ELSE <<>>

\* TickerHandler.all(): interval -> subscriptions
TickerHandler_all_intervals(pool) ==
    [i \in DOMAIN pool.tickers |-> pool.tickers[i].subscriptions]

\* TickerHandler.all_display: the store_keys of all tickers
TickerHandler_all_display(pool) ==
    UNION {DOMAIN pool.tickers[i].subscriptions : i \in DOMAIN pool.tickers}

----------------------------------------------------------------------------
(* State machine *)

NoKey == <<NONE, NONE, NONE, 0, "", FALSE>>

\* `last` for a call that reports nothing in particular
NoLast ==
    [interval |-> NoNumber, callback |-> NONE, log |-> EmptyDict, raised |-> "",
     op |-> "init",
     key |-> NoKey, existed |-> FALSE, reload |-> FALSE, fresh |-> FALSE,
     synced |-> FALSE, payload |-> EmptyDict, changed |-> FALSE]

EmptyPool == [tickers |-> EmptyDict, orphans |-> {}]

\* WebClient.__init__; no session is connected and the clock is at 0
WebClient_init ==
    /\ now = 0
    /\ requests = EmptyDict
    /\ databuffer = EmptyDict
    /\ last_alive = EmptyDict
    /\ keep_alive = NoNumber
    /\ sessions = {}
    /\ issued = {}
    /\ pending = EmptyDict
    /\ sent = [s \in Suids |-> <<>>]
    /\ got = [s \in Suids |-> <<>>]
    /\ wraised = ""

\* TickerHandler.__init__, TickerPool.__init__
Init ==
    /\ ticker_storage = EmptyDict
    /\ ticker_pool = EmptyPool
    /\ persisted = ConfDeleted
    /\ deleted = {}
    /\ firings = {}
    /\ last = NoLast
    /\ WebClient_init

\* The host calls restore() once, first thing after the process has started
\* (server start or reload); everything else happens on the started server.
Starting == last.op \in {"init", "restart"}

\* callers hold bound methods of entities that exist
Usable(callback) ==
    CallbackInfo[callback].kind = "method" => CallbackInfo[callback].im_self \notin deleted

\* TickerHandler.add(interval, callback, idstring, persistent, *args, **kwargs)
TickerHandler_add(interval, callback, idstring, persistent, args, kwargs) ==
    LET gc == TickerHandler__get_callback(callback)
        store_key == TickerHandler__store_key(gc.obj, gc.path, interval, gc.callfunc,
                                              idstring, persistent)
        st1 == DictSet(ticker_storage, store_key, [args |-> args, kwargs |-> kwargs])
        lst == [NoLast EXCEPT !.op = "add", !.key = store_key, !.callback = callback,
                              !.existed = store_key \in DOMAIN ticker_storage,
                              !.payload = [args |-> args, kwargs |-> kwargs],
                              !.changed =
                                 /\ store_key \in DOMAIN ticker_storage
                                 /\ IsPair(ticker_storage[store_key])
                                 /\ \/ ticker_storage[store_key].args # args
                                    \/ DOMAIN ticker_storage[store_key].kwargs
                                          \ ReservedKeys # DOMAIN kwargs
                                    \/ \E n \in DOMAIN kwargs :
                                          DictGet(ticker_storage[store_key].kwargs,
                                                  n, NONE) # kwargs[n]]
    IN /\ ~Starting
       /\ Usable(callback)
       /\ IF gc.raised # ""
          THEN /\ last' = [NoLast EXCEPT !.op = "add", !.raised = gc.raised,
                                         !.callback = callback]
               /\ UNCHANGED <<ticker_storage, ticker_pool, persisted, deleted, firings, ajax>>
          ELSE /\ \/ store_key \in DOMAIN ticker_storage
                  \/ Cardinality(DOMAIN ticker_storage) < MaxSubs
               /\ \E sv \in TickerHandler_save(st1, ticker_pool, persisted) :
                     IF sv.raised # ""
                     THEN /\ ticker_storage' = sv.ticker_storage
                          /\ last' = [lst EXCEPT !.raised = sv.raised]
                          /\ UNCHANGED <<ticker_pool, persisted, deleted, firings, ajax>>
                     ELSE LET kw == DictSet(DictSet(sv.ticker_storage[store_key].kwargs,
                                                    "_obj", gc.obj),
                                            "_callback", gc.callfunc)
                          IN /\ ticker_storage' =
                                   [sv.ticker_storage EXCEPT ![store_key].kwargs = kw]
                             /\ persisted' = sv.persisted
                             /\ ticker_pool' = TickerPool_add(ticker_pool, store_key, args, kw)
                             /\ firings' = Frames_orphaned(firings, interval, {store_key})
                             /\ last' = [lst EXCEPT !.raised =
                                            IF TickerPool_add_raises(store_key)
                                            THEN "KeyError" ELSE ""]
                             /\ UNCHANGED <<deleted, ajax>>

\* TickerHandler.remove without the test `if to_remove:`
TickerHandler_remove_always_saves(interval, callback, idstring) ==
    LET gc == TickerHandler__get_callback(callback)
        store_key == TickerHandler__store_key(gc.obj, gc.path, interval, gc.callfunc,
                                              idstring, TRUE)
        lst == [NoLast EXCEPT !.op = "remove", !.key = store_key, !.callback = callback,
                              !.existed = store_key \in DOMAIN ticker_storage]
        pool1 == TickerPool_remove(ticker_pool, store_key)
    IN /\ ~Starting
       /\ Usable(callback)
       /\ gc.raised = ""
       /\ \E sv \in TickerHandler_save(DictDel(ticker_storage, store_key),
                                       pool1, persisted) :
             /\ ticker_storage' = sv.ticker_storage
             /\ persisted' = sv.persisted
             /\ ticker_pool' = pool1
             /\ firings' = Frames_orphaned(firings, interval, {store_key})
             /\ last' = [lst EXCEPT !.raised = sv.raised]
             /\ UNCHANGED <<deleted, ajax>>

\* TickerHandler.remove(interval, callback, idstring)
TickerHandler_remove(interval, callback, idstring) ==
    LET gc == TickerHandler__get_callback(callback)
        store_key == TickerHandler__store_key(gc.obj, gc.path, interval, gc.callfunc,
                                              idstring, TRUE)
        lst == [NoLast EXCEPT !.op = "remove", !.key = store_key, !.callback = callback,
                              !.existed = store_key \in DOMAIN ticker_storage]
    IN /\ ~Starting
       /\ Usable(callback)
       /\ IF gc.raised # ""
          THEN /\ last' = [NoLast EXCEPT !.op = "remove", !.raised = gc.raised,
                                         !.callback = callback]
               /\ UNCHANGED <<ticker_storage, ticker_pool, persisted, deleted, firings, ajax>>
          ELSE IF store_key \in DOMAIN ticker_storage
          THEN LET pool1 == TickerPool_remove(ticker_pool, store_key)
               IN \E sv \in TickerHandler_save(DictDel(ticker_storage, store_key),
                                               pool1, persisted) :
                     /\ ticker_storage' = sv.ticker_storage
                     /\ persisted' = sv.persisted
                     /\ ticker_pool' = pool1
                     /\ firings' = Frames_orphaned(firings, interval, {store_key})
                     /\ last' = [lst EXCEPT !.raised = sv.raised]
                     /\ UNCHANGED <<deleted, ajax>>
          ELSE /\ last' = lst
               /\ UNCHANGED <<ticker_storage, ticker_pool, persisted, deleted, firings, ajax>>

\* TickerHandler.clear(interval); interval is None (<<>>) or a number (<<n>>)
TickerHandler_clear(interval) ==
    LET pool1 == TickerPool_stop(ticker_pool, interval)
        stopped == IF /\ interval # NoNumber /\ interval[1] # 0
                      /\ interval[1] \in DOMAIN ticker_pool.tickers
                   THEN {interval[1]} ELSE DOMAIN ticker_pool.tickers
        st1 == IF interval # NoNumber /\ interval[1] # 0
               THEN [k \in {k \in DOMAIN ticker_storage :
                               KeyItem(k, 1) # PyInt(interval[1])} |-> [store_key |-> k]]
               ELSE EmptyDict
    IN \E sv \in TickerHandler_save(st1, pool1, persisted) :
          /\ ~Starting
          /\ ticker_storage' = sv.ticker_storage
          /\ persisted' = sv.persisted
          /\ ticker_pool' = pool1
          /\ firings' = Frames_detached(firings, ticker_pool, stopped)
          /\ last' = [NoLast EXCEPT !.op = "clear", !.interval = interval,
                                    !.raised = sv.raised]
          /\ UNCHANGED <<deleted, ajax>>

\* TickerHandler.save()
Save ==
    \E sv \in TickerHandler_save(ticker_storage, ticker_pool, persisted) :
       /\ ~Starting
       /\ ticker_storage' = sv.ticker_storage
       /\ persisted' = sv.persisted
       /\ last' = [NoLast EXCEPT !.op = "save", !.raised = sv.raised]
       /\ UNCHANGED <<ticker_pool, deleted, firings, ajax>>

\* TickerHandler.restore(server_reload)
Restore(server_reload) ==
    \E out \in TickerHandler_restore(ticker_storage, ticker_pool, persisted, server_reload) :
       /\ Starting
       /\ ticker_storage' = out.ticker_storage
       /\ ticker_pool' = out.ticker_pool
       /\ last' = [NoLast EXCEPT !.op = "restore", !.reload = server_reload,
                       !.raised = out.raised,
                       !.fresh = (ticker_storage = EmptyDict /\ ticker_pool = EmptyPool),
                       !.synced = (last.op = "restart" /\ last.synced)]
       /\ UNCHANGED <<persisted, deleted, firings, ajax>>

\* The server process ends and a new one starts: a new TickerHandler with an
\* empty table and pool; the ServerConfig record and the database remain.
Restart ==
    /\ ~Starting
    /\ ticker_storage' = EmptyDict
    /\ ticker_pool' = EmptyPool
    /\ firings' = {}
    /\ last' = [NoLast EXCEPT !.op = "restart",
                              !.synced = (last.op = "save" /\ last.raised = "")]
    /\ UNCHANGED <<persisted, deleted, ajax>>

\* The reactor calls the task of the ticker for `interval`: Ticker._callback
Fire(interval) ==
    /\ interval \in DOMAIN ticker_pool.tickers
    /\ ticker_pool.tickers[interval].running
    /\ \E does \in [DOMAIN ticker_pool.tickers[interval].subscriptions -> Behaviours] :
          LET r == Ticker__callback(ticker_pool.tickers[interval], does)
          IN /\ ticker_pool' = [ticker_pool EXCEPT !.tickers[interval] = r.ticker]
             /\ firings' = Frames_orphaned(firings, interval,
                                DOMAIN ticker_pool.tickers[interval].subscriptions
                                   \ DOMAIN r.ticker.subscriptions)
             /\ last' = [NoLast EXCEPT !.op = "fire", !.interval = <<interval>>,
                                       !.log = r.log]
    /\ UNCHANGED <<ticker_storage, persisted, deleted, ajax>>

\* obj.delete(): the entity's database row is removed
DeleteEntity(e) ==
    /\ ~Starting
    /\ e \notin deleted
    /\ deleted' = deleted \cup {e}
    /\ last' = [NoLast EXCEPT !.op = "delete"]
    /\ UNCHANGED <<ticker_storage, ticker_pool, persisted, firings, ajax>>

Next ==
    \/ \E c \in AddCalls : TickerHandler_add(c[1], c[2], c[3], c[4], c[5].args, c[5].kwargs)
    \/ \E c \in RemoveCalls : TickerHandler_remove(c[1], c[2], c[3])
    \/ \E i \in ClearCalls : TickerHandler_clear(i)
    \/ Save
    \/ \E b \in BOOLEAN : Restore(b)
    \/ Restart
    \/ \E i \in Intervals : Fire(i)
    \/ \E e \in Entities : DeleteEntity(e)

Spec == Init /\ [][Next]_vars

\* Entries a ServerConfig record can hold when restore() reads it: well-formed
\* ones and ones left by something else than this save(): a key in the older
\* three-item form (obj, interval, idstring), and a value that is not an
\* (args, kwargs) pair (a store_key, as clear(interval) puts into the table).
StaleEntries ==
    { << <<NONE, NONE, "world.func1", 1, "", TRUE>>,
         [args |-> <<>>, kwargs |-> ("_start_delay" :> NoNumber)] >>,
      << <<"#obj1", "at_tick", NONE, 2, "", TRUE>>,
         [args |-> <<"a">>, kwargs |-> ("_start_delay" :> NoNumber)] >>,
      << <<"#obj1", 1, "">>,
         [args |-> <<>>, kwargs |-> ("_start_delay" :> NoNumber)] >>,
      << <<NONE, NONE, "world.func1", 2, "", TRUE>>,
         [store_key |-> <<NONE, NONE, "world.func1", 2, "", TRUE>>] >> }

\* the records made of some of these entries
StaleRecords ==
    { [pk \in {e[1] : e \in es} |-> (CHOOSE e \in es : e[1] = pk)[2]] :
         es \in SUBSET StaleEntries \ {{}} }

\* A server starting on such a record
InitStale ==
    /\ ticker_storage = EmptyDict
    /\ ticker_pool = EmptyPool
    /\ persisted \in {[value |-> r, saved |-> TRUE] : r \in StaleRecords}
    /\ deleted = {}
    /\ firings = {}
    /\ last = NoLast
    /\ WebClient_init

NextStale ==
    \/ \E b \in BOOLEAN : Restore(b)
    \/ \E c \in RemoveCalls : TickerHandler_remove(c[1], c[2], c[3])
    \/ \E i \in Intervals : Fire(i)
    \/ \E e \in Entities : DeleteEntity(e)
    \/ Restart

SpecStale == InitStale /\ [][NextStale]_vars

\* The same registry, driven with the edge-case calls
NextEdge ==
    \/ \E c \in AddCallsEdge :
          TickerHandler_add(c[1], c[2], c[3], c[4], c[5].args, c[5].kwargs)
    \/ \E c \in RemoveCallsEdge : TickerHandler_remove(c[1], c[2], c[3])
    \/ \E i \in ClearCalls : TickerHandler_clear(i)
    \/ Save
    \/ \E b \in BOOLEAN : Restore(b)
    \/ Restart
    \/ \E i \in Intervals : Fire(i)
    \/ \E e \in Entities : DeleteEntity(e)

SpecEdge == Init /\ [][NextEdge]_vars

\* The calls made while firings are under way
AddCallsAsync ==
    { <<1, M_at_tick, "", TRUE, PayloadB>>,
      <<1, F_func1, "", TRUE, PayloadB>> }

RemoveCallsAsync == { <<c[1], c[2], c[3]>> : c \in AddCallsAsync }

\* What a run of the generator leaves: r is the [frame, ticker, status] of
\* Frame_run, `others` the other frames.
\*   suspended: the frame waits for the Deferred of the callback
\*   ended:     the cleanup loop (self.remove for each of to_remove), then the
\*              task schedules its next call
\*   failed:    RuntimeError has left the generator; the task's errback
Fire_outcome(others, r) ==
    LET i == r.frame.interval
    IN CASE r.status = "suspended" ->
              /\ ticker_pool' = [ticker_pool EXCEPT !.tickers[i] = r.ticker]
              /\ firings' = others \cup {r.frame}
              /\ last' = [NoLast EXCEPT !.op = "suspend", !.interval = <<i>>]
         [] r.status = "ended" ->
              /\ ticker_pool' = [ticker_pool EXCEPT !.tickers[i] =
                    ExtendedLoopingCall_reschedule(
                       Ticker_remove_all(r.ticker, r.frame.to_remove))]
              /\ firings' = Frames_orphaned(others, i, r.frame.to_remove)
              /\ last' = [NoLast EXCEPT !.op = "fire", !.interval = <<i>>,
                                        !.log = r.frame.log]
         [] r.status = "failed" ->
              /\ ticker_pool' = [ticker_pool EXCEPT !.tickers[i] =
                                    ExtendedLoopingCall_failed(r.ticker)]
              /\ firings' = others
              /\ last' = [NoLast EXCEPT !.op = "fire", !.interval = <<i>>,
                                        !.log = r.frame.log,
                                        !.raised = "RuntimeError"]

\* The reactor makes the delayed call of the task of the ticker for
\* `interval`: Ticker._callback runs until it is suspended or ends
FireBegin(interval) ==
    /\ interval \in DOMAIN ticker_pool.tickers
    /\ ticker_pool.tickers[interval].call
    /\ Cardinality(firings) < MaxFirings
    /\ LET id == CHOOSE n \in 1..MaxFirings :
                    /\ \A f \in firings : f.id # n
                    /\ \A m \in 1..(n - 1) : \E f \in firings : f.id = m
           t0 == ExtendedLoopingCall_called(ticker_pool.tickers[interval])
           f0 == Frame_new(id, t0)
       IN \E order \in Frame_orders(f0, t0) :
          \E does \in [{order[j] : j \in DOMAIN order} -> CallOutcomes] :
             Fire_outcome(firings,
                Frame_run([frame |-> f0, ticker |-> t0, status |-> "running"],
                          order, 1, does))
    /\ UNCHANGED <<ticker_storage, persisted, deleted, ajax>>

\* The Deferred the suspended frame `id` waits for fires: the generator goes
\* on until it is suspended again or ends
FireResume(id, result) ==
    /\ \E f \in firings : f.id = id
    /\ LET f == CHOOSE f \in firings : f.id = id
           st0 == Frame_resumed([frame |-> f,
                                 ticker |-> ticker_pool.tickers[f.interval],
                                 status |-> "running"], result)
       IN \E order \in Frame_orders(st0.frame, st0.ticker) :
          \E does \in [{order[j] : j \in DOMAIN order} -> CallOutcomes] :
             Fire_outcome(firings \ {f}, Frame_run(st0, order, 1, does))
    /\ UNCHANGED <<ticker_storage, persisted, deleted, ajax>>

\* The registry with callbacks that return Deferreds: other calls are made
\* while a firing is suspended
NextAsync ==
    \/ \E c \in AddCallsAsync :
          TickerHandler_add(c[1], c[2], c[3], c[4], c[5].args, c[5].kwargs)
    \/ \E c \in RemoveCallsAsync : TickerHandler_remove(c[1], c[2], c[3])
    \/ \E b \in BOOLEAN : Restore(b)
    \/ \E i \in Intervals : FireBegin(i)
    \/ \E id \in 1..MaxFirings : \E result \in Behaviours : FireResume(id, result)
    \/ \E e \in Entities : DeleteEntity(e)

SpecAsync == Init /\ [][NextAsync]_vars

\* Entries of a ServerConfig record that carry the time that was left until
\* the next firing when they were saved
TimedEntries ==
    { << <<NONE, NONE, "world.func1", 2, "", TRUE>>,
         [args |-> <<>>, kwargs |-> ("_start_delay" :> <<1>>)] >>,
      << <<"#obj1", "at_tick", NONE, 2, "", TRUE>>,
         [args |-> <<>>, kwargs |-> ("_start_delay" :> NoNumber)] >>,
      << <<NONE, NONE, "world.func1", 1, "", TRUE>>,
         [args |-> <<>>, kwargs |-> ("_start_delay" :> <<0>>)] >> }

TimedRecords ==
    { [pk \in {e[1] : e \in es} |-> (CHOOSE e \in es : e[1] = pk)[2]] :
         es \in SUBSET TimedEntries \ {{}} }

\* A server starting on such a record, or on none
InitTimed ==
    /\ ticker_storage = EmptyDict
    /\ ticker_pool = EmptyPool
    /\ persisted \in {[value |-> r, saved |-> TRUE] : r \in TimedRecords}
                     \cup {ConfDeleted}
    /\ deleted = {}
    /\ firings = {}
    /\ last = NoLast
    /\ WebClient_init

\* One second passes in which no call of a task is due
Tick ==
    /\ ~Starting
    /\ \E i \in DOMAIN ticker_pool.tickers : ticker_pool.tickers[i].running
    /\ \A i \in DOMAIN ticker_pool.tickers :
          ticker_pool.tickers[i].running => ticker_pool.tickers[i].remaining > 0
    /\ ticker_pool' = [ticker_pool EXCEPT !.tickers =
                          [i \in DOMAIN @ |->
                              IF @[i].running
                              THEN [@[i] EXCEPT !.remaining = @ - 1] ELSE @[i]]]
    /\ last' = [NoLast EXCEPT !.op = "tick"]
    /\ UNCHANGED <<ticker_storage, persisted, deleted, firings, ajax>>

\* The reactor calls the task of the ticker for `interval` when it is due
FireDue(interval) ==
    /\ interval \in DOMAIN ticker_pool.tickers
    /\ ticker_pool.tickers[interval].remaining = 0
    /\ Fire(interval)

\* The registry with the time between the calls
NextTimed ==
    \/ \E b \in BOOLEAN : Restore(b)
    \/ \E c \in AddCalls : TickerHandler_add(c[1], c[2], c[3], c[4], c[5].args, c[5].kwargs)
    \/ \E c \in RemoveCalls : TickerHandler_remove(c[1], c[2], c[3])
    \/ Tick
    \/ \E i \in Intervals : FireDue(i)

SpecTimed == InitTimed /\ [][NextTimed]_vars

----------------------------------------------------------------------------
(* evennia/server/inputfuncs.py: the inputfuncs repeat and unrepeat *)

\* _repeatable
_repeatable == ("test1" :> F_testrepeat) @@ ("test2" :> F_testrepeat)

\* the parameters of TickerHandler.remove that a caller can pass by keyword
TickerHandler_remove_params == {"interval", "callback", "idstring"}

\* name = kwargs.get("callback", "")
Repeat_name(kwargs) == IF kwargs.callback = <<>> THEN "" ELSE kwargs.callback[1]

\* interval = max(5, int(kwargs.get("interval", 60))), without the lower limit
Repeat_interval_unlimited(kwargs) ==
    IF kwargs.interval = <<>> THEN 60 ELSE kwargs.interval[1]

\* interval = max(5, int(kwargs.get("interval", 60)))
Repeat_interval(kwargs) ==
    Max(5, IF kwargs.interval = <<>> THEN 60 ELSE kwargs.interval[1])

\* kwargs.get("stop", False)
Repeat_stop(kwargs) == kwargs.stop # <<>> /\ kwargs.stop[1]

\* repeat(session, **kwargs)
repeat(sessid, kwargs) ==
    LET name == Repeat_name(kwargs)
        interval == Repeat_interval(kwargs)
    IN IF name \in DOMAIN _repeatable
       THEN IF Repeat_stop(kwargs)
            THEN \* TICKER_HANDLER.remove(interval, callback, idstring=..., persistent=False)
                 IF {"idstring", "persistent"} \subseteq TickerHandler_remove_params
                 THEN TickerHandler_remove(interval, _repeatable[name], sessid)
                 ELSE /\ ~Starting
                      /\ last' = [NoLast EXCEPT !.op = "repeat", !.raised = "TypeError"]
                      /\ UNCHANGED <<ticker_storage, ticker_pool, persisted, deleted,
                                     firings, ajax>>
            ELSE TickerHandler_add(interval, _repeatable[name], sessid, FALSE,
                                   <<>>, EmptyDict)
       ELSE /\ ~Starting
            /\ last' = [NoLast EXCEPT !.op = "repeat"]
            /\ UNCHANGED <<ticker_storage, ticker_pool, persisted, deleted, firings, ajax>>

\* unrepeat(session, **kwargs)
unrepeat(sessid, kwargs) ==
    LET stopping == [kwargs EXCEPT !.stop = <<TRUE>>]
    IN repeat(sessid, stopping)

NextRepeat ==
    \/ \E b \in BOOLEAN : Restore(b)
    \/ \E s \in Sessids, kw \in RepeatKwargs : repeat(s, kw)
    \/ \E s \in Sessids, kw \in RepeatKwargs : unrepeat(s, kw)
    \/ \E i \in RepeatIntervals : Fire(i)
    \/ Restart

SpecRepeat == Init /\ [][NextRepeat]_vars

----------------------------------------------------------------------------
(* evennia/server/portal/webclient_ajax.py: the AJAX long-polling client *)

\* jsonify(obj): the JSON text of obj
jsonify(obj) == <<"json", obj>>

\* The WebClient, the sessionhandler and the open requests as one value
WC ==
    [requests |-> requests, databuffer |-> databuffer, last_alive |-> last_alive,
     keep_alive |-> keep_alive, sessions |-> sessions, pending |-> pending,
     sent |-> sent, got |-> got, raised |-> ""]

\* request.write(body): the client that made the request receives body
Request_write(st, id, body) ==
    IF id \in DOMAIN st.pending
    THEN [st EXCEPT !.got[st.pending[id]] = Append(@, body)]
    ELSE st

\* request.finish(): the response is complete; finishing a request whose
\* response is complete or whose connection is lost raises RuntimeError
Request_finish(st, id) ==
    IF id \in DOMAIN st.pending
    THEN [st EXCEPT !.pending = DictDel(@, id)]
    ELSE [st EXCEPT !.raised = "RuntimeError"]

\* WebClient.lineSend that buffers also when a request is waiting
WebClient_lineSend_buffers_too(st, suid, data) ==
    LET st1 == [st EXCEPT !.sent[suid] = Append(@, data)]
        buffered == [st1 EXCEPT !.databuffer =
                        DictSet(@, suid, Append(DictGet(@, suid, <<>>), jsonify(data)))]
    IN IF suid \in DOMAIN st.requests
       THEN LET request == st.requests[suid]
                written == Request_write(buffered, request, jsonify(data))
            IN [Request_finish(written, request) EXCEPT !.requests = DictDel(@, suid)]
       ELSE buffered

\* WebClient.lineSend(suid, data)
WebClient_lineSend(st, suid, data) ==
    LET st1 == [st EXCEPT !.sent[suid] = Append(@, data)]
    IN IF suid \in DOMAIN st.requests
       THEN LET request == st.requests[suid]
                written == Request_write(st1, request, jsonify(data))
            IN [Request_finish(written, request) EXCEPT !.requests = DictDel(@, suid)]
       ELSE [st1 EXCEPT !.databuffer =
                DictSet(@, suid, Append(DictGet(@, suid, <<>>), jsonify(data)))]

\* WebClient.client_disconnect(suid)
WebClient_client_disconnect(st, suid) ==
    LET st1 == IF suid \in DOMAIN st.requests
               THEN [Request_finish(st, st.requests[suid])
                        EXCEPT !.requests = DictDel(@, suid)]
               ELSE st
    IN [st1 EXCEPT !.databuffer = DictDel(@, suid)]

\* sessionhandler.disconnect(session): the portal forgets the session
SessionHandler_disconnect(st, suid) == [st EXCEPT !.sessions = @ \ {suid}]

\* WebClientSession.disconnect(reason)
WebClientSession_disconnect(st, suid) ==
    SessionHandler_disconnect(
        WebClient_client_disconnect(
            WebClient_lineSend(st, suid, "connection_close"), suid), suid)

\* the test of WebClient._keepalive, with >= in place of >
KeepAlive_timed_out_at_period(time, entry) == time - entry[1] >= _KEEPALIVE

\* the test of WebClient._keepalive: now - t > _KEEPALIVE
KeepAlive_timed_out(time, entry) == time - entry[1] > _KEEPALIVE

\* the first loop of WebClient._keepalive over the sessions to warn
RECURSIVE KeepAlive_warn(_, _, _)
KeepAlive_warn(st, time, todo) ==
    IF todo = {} THEN st
    ELSE LET suid == CHOOSE x \in todo : TRUE
             st1 == [st EXCEPT !.last_alive = DictSet(@, suid, <<time, TRUE>>)]
         IN KeepAlive_warn(WebClient_lineSend(st1, suid, "ajax_keepalive"),
                           time, todo \ {suid})

\* the second loop of WebClient._keepalive over to_remove
RECURSIVE KeepAlive_remove(_, _)
KeepAlive_remove(st, to_remove) ==
    IF to_remove = {} THEN st
    ELSE LET suid == CHOOSE x \in to_remove : TRUE
             st1 == IF suid \in st.sessions
                    THEN WebClientSession_disconnect(st, suid) ELSE st
             st2 == [st1 EXCEPT !.last_alive = DictDel(@, suid)]
             st3 == IF st2.last_alive = EmptyDict
                    THEN [st2 EXCEPT !.keep_alive = NoNumber] ELSE st2
         IN KeepAlive_remove(st3, to_remove \ {suid})

\* WebClient._keepalive()
WebClient__keepalive(st, time) ==
    LET timed_out == {suid \in DOMAIN st.last_alive :
                         KeepAlive_timed_out(time, st.last_alive[suid])}
        to_remove == {suid \in timed_out : st.last_alive[suid][2]}
    IN KeepAlive_remove(KeepAlive_warn(st, time, timed_out \ to_remove), to_remove)

\* the variables take the values of st
WC_becomes(st) ==
    /\ requests' = st.requests
    /\ databuffer' = st.databuffer
    /\ last_alive' = st.last_alive
    /\ keep_alive' = st.keep_alive
    /\ sessions' = st.sessions
    /\ pending' = st.pending
    /\ sent' = st.sent
    /\ got' = st.got
    /\ wraised' = st.raised

\* the part of the state that the web client does not touch
ticker_vars == <<ticker_storage, ticker_pool, persisted, deleted, firings, last>>

\* a client sends the suid that mode_init gave it, or none
Sends(suid) == suid \in issued \cup {NoSuid}

\* md5(str(time())).hexdigest(): a suid that was not given out before
NewSuids == IF Suids \ issued = {} THEN {}
            ELSE {CHOOSE suid \in Suids \ issued : TRUE}

\* WebClient.mode_init(request); suid is the request's suid argument
mode_init(suid) ==
    /\ Sends(suid)
    /\ IF suid = NoSuid
       THEN \E new \in NewSuids :
               LET st1 == [WC EXCEPT !.databuffer = DictSet(@, new, <<>>),
                                     !.sessions = @ \cup {new},
                                     !.last_alive = DictSet(@, new, <<now, FALSE>>)]
                   st2 == IF st1.keep_alive = NoNumber
                          THEN [st1 EXCEPT !.keep_alive = <<now + _KEEPALIVE>>]
                          ELSE st1
               IN /\ WC_becomes(st2)
                  /\ issued' = issued \cup {new}
       ELSE /\ wraised' = ""
            /\ UNCHANGED <<requests, databuffer, last_alive, keep_alive, sessions,
                           issued, pending, sent, got>>
    /\ UNCHANGED <<now, ticker_vars>>

\* WebClient.mode_keepalive(request)
mode_keepalive(suid) ==
    /\ Sends(suid)
    /\ IF suid = NoSuid
       THEN UNCHANGED last_alive
       ELSE last_alive' = DictSet(last_alive, suid, <<now, FALSE>>)
    /\ wraised' = ""
    /\ UNCHANGED <<now, requests, databuffer, keep_alive, sessions, issued, pending,
                   sent, got, ticker_vars>>

\* WebClient.mode_input(request); the command goes to the server
mode_input(suid) ==
    /\ Sends(suid)
    /\ IF suid = NoSuid
       THEN UNCHANGED last_alive
       ELSE last_alive' = DictSet(last_alive, suid, <<now, FALSE>>)
    /\ wraised' = ""
    /\ UNCHANGED <<now, requests, databuffer, keep_alive, sessions, issued, pending,
                   sent, got, ticker_vars>>

\* a request object that is not one of the waiting ones
NewRequest ==
    CHOOSE id \in 1..(Cardinality(DOMAIN pending) + 1) : id \notin DOMAIN pending

\* WebClient.mode_receive without the finish of a stale request
mode_receive_keeps_stale(suid) ==
    /\ Sends(suid)
    /\ IF suid = NoSuid
       THEN /\ wraised' = ""
            /\ UNCHANGED <<requests, databuffer, last_alive, keep_alive, sessions,
                           pending, sent, got>>
       ELSE LET st1 == [WC EXCEPT !.last_alive = DictSet(@, suid, <<now, FALSE>>)]
                dataentries == DictGet(st1.databuffer, suid, <<>>)
            IN IF dataentries # <<>>
               THEN WC_becomes([st1 EXCEPT !.databuffer[suid] = Tail(dataentries),
                                           !.got[suid] = Append(@, Head(dataentries))])
               ELSE LET request == NewRequest
                        waiting == [st1 EXCEPT !.pending = DictSet(@, request, suid)]
                        st2 == waiting
                    IN WC_becomes([st2 EXCEPT !.requests = DictSet(@, suid, request)])
    /\ UNCHANGED <<now, issued, ticker_vars>>

\* WebClient.mode_receive(request)
mode_receive(suid) ==
    /\ Sends(suid)
    /\ IF suid = NoSuid
       THEN /\ wraised' = ""
            /\ UNCHANGED <<requests, databuffer, last_alive, keep_alive, sessions,
                           pending, sent, got>>
       ELSE LET st1 == [WC EXCEPT !.last_alive = DictSet(@, suid, <<now, FALSE>>)]
                dataentries == DictGet(st1.databuffer, suid, <<>>)
            IN IF dataentries # <<>>
               THEN WC_becomes([st1 EXCEPT !.databuffer[suid] = Tail(dataentries),
                                           !.got[suid] = Append(@, Head(dataentries))])
               ELSE LET request == NewRequest
                        waiting == [st1 EXCEPT !.pending = DictSet(@, request, suid)]
                        st2 == IF suid \in DOMAIN waiting.requests
                               THEN Request_finish(waiting, waiting.requests[suid])
                               ELSE waiting
                    IN WC_becomes([st2 EXCEPT !.requests = DictSet(@, suid, request)])
    /\ UNCHANGED <<now, issued, ticker_vars>>

\* WebClient.mode_close(request)
mode_close(suid) ==
    /\ Sends(suid)
    /\ IF suid # NoSuid /\ suid \in sessions
       THEN WC_becomes(SessionHandler_disconnect(WC, suid))
       ELSE WC_becomes(WebClient_client_disconnect(WC, suid))
    /\ UNCHANGED <<now, issued, ticker_vars>>

\* WebClient._responseFailed: the connection of a waiting request is lost
ResponseFailed(suid) ==
    /\ Sends(suid)
    /\ \E request \in DOMAIN pending :
          /\ pending[request] = suid
          /\ pending' = DictDel(pending, request)
    /\ requests' = DictDel(requests, suid)
    /\ wraised' = ""
    /\ UNCHANGED <<now, databuffer, last_alive, keep_alive, sessions, issued, sent,
                   got, ticker_vars>>

\* The server sends a message to a session: WebClientSession.send_text
ServerSend(suid, cmd) ==
    /\ suid \in sessions
    /\ Len(sent[suid]) < MaxSent
    /\ WC_becomes(WebClient_lineSend(WC, suid, cmd))
    /\ UNCHANGED <<now, issued, ticker_vars>>

\* The server disconnects a session: WebClientSession.disconnect
ServerDisconnect(suid) ==
    /\ suid \in sessions
    /\ WC_becomes(WebClientSession_disconnect(WC, suid))
    /\ UNCHANGED <<now, issued, ticker_vars>>

\* The reactor calls the keepalive LoopingCall when it is due; a LoopingCall
\* that was not stopped is called again after its interval
KeepaliveCheck ==
    /\ keep_alive # NoNumber
    /\ keep_alive[1] = now
    /\ LET st == WebClient__keepalive(WC, now)
       IN WC_becomes(IF st.keep_alive = NoNumber THEN st
                     ELSE [st EXCEPT !.keep_alive = <<now + _KEEPALIVE>>])
    /\ UNCHANGED <<now, issued, ticker_vars>>

\* Time passes; a LoopingCall that is due is called first
Pass ==
    /\ now < MaxTime
    /\ IF keep_alive = NoNumber THEN TRUE ELSE now < keep_alive[1]
    /\ now' = now + TickStep
    /\ wraised' = ""
    /\ UNCHANGED <<requests, databuffer, last_alive, keep_alive, sessions, issued,
                   pending, sent, got, ticker_vars>>

\* The long-polling of the clients and the messages of the server
NextAjax ==
    \/ \E suid \in RequestSuids : mode_init(suid)
    \/ \E suid \in RequestSuids : mode_keepalive(suid)
    \/ \E suid \in RequestSuids : mode_input(suid)
    \/ \E suid \in RequestSuids : mode_receive(suid)
    \/ \E suid \in RequestSuids : mode_close(suid)
    \/ \E suid \in Suids : ResponseFailed(suid)
    \/ \E suid \in Suids, cmd \in ServerCmds : ServerSend(suid, cmd)
    \/ \E suid \in Suids : ServerDisconnect(suid)

SpecAjax == Init /\ [][NextAjax]_vars

\* The requests of the clients, the passing of time and the keepalive checks
NextAlive ==
    \/ \E suid \in RequestSuids : mode_init(suid)
    \/ \E suid \in RequestSuids : mode_keepalive(suid)
    \/ \E suid \in RequestSuids : mode_input(suid)
    \/ \E suid \in RequestSuids : mode_receive(suid)
    \/ \E suid \in RequestSuids : mode_close(suid)
    \/ \E suid \in Suids : ServerDisconnect(suid)
    \/ KeepaliveCheck
    \/ Pass

SpecAlive == Init /\ [][NextAlive]_vars

----------------------------------------------------------------------------
(* Properties *)

Tickers == ticker_pool.tickers

\* the timers for interval i that exist: the pool's and the orphaned ones
NumTimers(i) ==
    (IF i \in DOMAIN Tickers THEN 1 ELSE 0)
    + Cardinality({o \in ticker_pool.orphans : o.interval = i})

\* the store_keys with interval i subscribed to any timer
ActiveAt(i) ==
    {k \in UNION ({DOMAIN Tickers[j].subscriptions : j \in DOMAIN Tickers}
                  \cup {DOMAIN o.subscriptions : o \in ticker_pool.orphans}) : k[4] = i}

\* C1: at most one timer exists per interval, and the N subscriptions whose
\* key has interval I are all held by the one timer the pool has for I.
C1_OneTimerPerInterval ==
    \A i \in Intervals :
       /\ NumTimers(i) <= 1
       /\ ActiveAt(i) # {} =>
             /\ NumTimers(i) = 1
             /\ i \in DOMAIN Tickers
             /\ Tickers[i].interval = i
             /\ ActiveAt(i) = DOMAIN Tickers[i].subscriptions

\* two subscriptions share the one running timer of interval 1, and the pool
\* has had a timer for interval 2 as well
C1_Witness ==
    /\ {1, 2} \subseteq DOMAIN Tickers
    /\ Cardinality(DOMAIN Tickers[1].subscriptions) = 2
    /\ Tickers[1].running
    /\ NumTimers(1) = 1

SameTriple(k1, k2) ==
    /\ k1[1] = k2[1] /\ k1[2] = k2[2] /\ k1[3] = k2[3]
    /\ k1[4] = k2[4] /\ k1[5] = k2[5]

\* C3: after add has completed there is exactly one subscription for its
\* (target/callable, interval, tag), in the table and in what all() reports.
C3_OneSubscriptionPerTriple ==
    (last.op = "add" /\ last.raised = "") =>
       /\ Cardinality({k \in DOMAIN ticker_storage : SameTriple(k, last.key)}) = 1
       /\ Cardinality({k \in TickerHandler_all_display(ticker_pool) :
                          SameTriple(k, last.key)}) = 1

\* the next firing would invoke this subscription
WouldCall(sub) == Subscriber_step(sub, "return").called

\* C4: in a firing where a callback raises a generic exception, every
\* subscriber of the timer is processed and every resolvable one invoked, the
\* timer keeps running, and the raising subscription stays subscribed with its
\* callable intact, so that the next firing invokes it again.
C4_FaultIsolation ==
    [][ last'.op = "fire" =>
          LET i == last'.interval[1]
              before == Tickers[i].subscriptions
              after == ticker_pool'.tickers[i]
          IN \A k \in DOMAIN last'.log :
                last'.log[k].result = "raise" =>
                   /\ DOMAIN last'.log = DOMAIN before
                   /\ \A k2 \in DOMAIN before :
                         WouldCall(before[k2]) => last'.log[k2].called
                   /\ after.running
                   /\ k \in DOMAIN after.subscriptions
                   /\ WouldCall(after.subscriptions[k]) ]_vars

\* a firing in which one callback raised and another one returned
C4_Witness ==
    /\ last.op = "fire"
    /\ \E k1, k2 \in DOMAIN last.log :
          /\ last.log[k1].result = "raise"
          /\ last.log[k2].result = "return"
          /\ k1 \in DOMAIN Tickers[last.interval[1]].subscriptions

\* an entity+method subscription whose entity has been deleted
DeadTarget(k) == k[1] # NONE /\ k[2] # NONE /\ k[1] \in deleted

\* C5: a firing does not invoke an entity+method subscription whose entity
\* has been deleted and removes it, so that all() and all_display() no longer
\* report it; the other subscribers are invoked, and kept unless they asked
\* for removal themselves.
C5_DeadTargetRemoved ==
    [][ last'.op = "fire" =>
          LET i == last'.interval[1]
              before == Tickers[i].subscriptions
          IN \A k \in DOMAIN before :
                IF DeadTarget(k)
                THEN /\ ~last'.log[k].called
                     /\ k \notin TickerHandler_all_display(ticker_pool')
                     /\ k \notin DOMAIN TickerHandler_all_intervals(ticker_pool')[i]
                ELSE /\ WouldCall(before[k]) => last'.log[k].called
                     /\ last'.log[k].result \in {"return", "raise"} =>
                           k \in DOMAIN TickerHandler_all_intervals(ticker_pool')[i] ]_vars

\* a firing that dropped a dead entity's subscription and invoked another one
C5_Witness ==
    /\ last.op = "fire"
    /\ \E k1, k2 \in DOMAIN last.log :
          /\ DeadTarget(k1) /\ last.log[k1].result = "gone"
          /\ k1 \notin TickerHandler_all_display(ticker_pool)
          /\ last.log[k2].called
          /\ k2 \in TickerHandler_all_display(ticker_pool)

\* the call just made concerns another subscription or another interval than
\* those of store_key k
ConcernsOther(k) ==
    \/ last'.op \in {"add", "remove"} /\ last'.key # k
    \/ last'.op = "clear" /\ last'.interval # NoNumber /\ last'.interval[1] # k[4]
    \/ last'.op = "fire" /\ last'.interval[1] # k[4]
    \/ last'.op = "save"

\* C6 (safety part): an operation on another subscription or interval neither
\* unsubscribes a subscription nor stops its timer.
C6_OthersDoNotStopIt ==
    [][ \A i \in DOMAIN Tickers : \A k \in DOMAIN Tickers[i].subscriptions :
           (Tickers[i].running /\ ConcernsOther(k)) =>
              /\ i \in DOMAIN ticker_pool'.tickers
              /\ ticker_pool'.tickers[i].running
              /\ k \in DOMAIN ticker_pool'.tickers[i].subscriptions ]_vars

\* the store_key a persisted key had when it was saved
OrigKey(pk) ==
    [pk EXCEPT ![1] = IF \E e \in Entities : PackedRef[e] = @
                      THEN CHOOSE e \in Entities : PackedRef[e] = @
                      ELSE @]

\* the kwargs the caller supplied: without the reserved keys
CallerKwargs(kwargs) == [n \in DOMAIN kwargs \ ReservedKeys |-> kwargs[n]]

SamePayload(v1, v2) ==
    v1.args = v2.args /\ CallerKwargs(v1.kwargs) = CallerKwargs(v2.kwargs)

\* restore(True) has just run on a fresh registry, right after save() and a
\* restart; `persisted` is then the table as it was saved
RoundTrip == last.op = "restore" /\ last.reload /\ last.fresh /\ last.synced

\* a function-addressed subscription is subscribed to a running timer that
\* invokes it
FiresAgain(k) ==
    /\ k[4] \in DOMAIN Tickers
    /\ Tickers[k[4]].running
    /\ k \in DOMAIN Tickers[k[4]].subscriptions
    /\ WouldCall(Tickers[k[4]].subscriptions[k])

C8_StartDelayIsRemainingTime ==
    (last.op = "save" /\ last.raised = "" /\ persisted.saved) =>
       \A pk \in DOMAIN persisted.value :
          /\ "_start_delay" \in DOMAIN persisted.value[pk].kwargs
          /\ persisted.value[pk].kwargs["_start_delay"] =
                IF pk[4] \in DOMAIN Tickers
                THEN next_call_time(Tickers[pk[4]]) ELSE NoNumber

\* C9: restore(False) on a fresh registry brings back exactly the persisted
\* entries whose durable flag is true, into the table and into the pool, and
\* no other; restore(True) brings back all of them.
C9_ColdRestartKeepsDurable ==
    (last.op = "restore" /\ last.fresh /\ persisted.saved) =>
       LET kept == {UnpackKey(pk) : pk \in {q \in DOMAIN persisted.value :
                                                q[6] \/ last.reload}}
       IN /\ DOMAIN ticker_storage = kept
          /\ TickerHandler_all_display(ticker_pool) = {k \in kept : k[4] # 0}
          /\ ~last.reload =>
                \A k \in DOMAIN ticker_storage \cup TickerHandler_all_display(ticker_pool) :
                   k[6]

\* restore(False) met a durable and a non-durable entry and kept the durable one
C9_Witness ==
    /\ last.op = "restore" /\ ~last.reload /\ last.fresh /\ persisted.saved
    /\ \E pk1, pk2 \in DOMAIN persisted.value :
          /\ pk1[6] /\ ~pk2[6]
          /\ DOMAIN ticker_storage = {UnpackKey(pk1)}
          /\ TickerHandler_all_display(ticker_pool) = {UnpackKey(pk1)}

\* the subscriptions of the table at interval i
TableAt(i) == {k \in DOMAIN ticker_storage : k[4] = i}

\* C10: after add(interval, obj.at_tick), with nothing else at that interval,
\* all(interval) reports one subscription, keyed (obj, "at_tick", None,
\* interval, "", True); after the following remove, all(interval) reports
\* neither a subscription nor a timer for that interval.
C10_AddThenRemove ==
    /\ (last.op = "add" /\ last.raised = "" /\ last.key[1] # NONE
           /\ TableAt(last.key[4]) = {last.key}) =>
          LET i == last.key[4]
          IN /\ last.key = <<last.key[1], "at_tick", NONE, i, "", TRUE>>
             /\ TickerHandler_all(ticker_pool, i) # <<>>
             /\ DOMAIN TickerHandler_all(ticker_pool, i)[1][i] = {last.key}
    /\ (last.op = "remove" /\ last.raised = "" /\ last.existed /\ last.key[1] # NONE
           /\ TableAt(last.key[4]) = {}) =>
          TickerHandler_all(ticker_pool, last.key[4]) = <<>>

\* the first half of C10 alone
C10_AddReportsOne ==
    (last.op = "add" /\ last.raised = "" /\ last.key[1] # NONE
        /\ TableAt(last.key[4]) = {last.key}) =>
       LET i == last.key[4]
       IN /\ last.key = <<last.key[1], "at_tick", NONE, i, "", TRUE>>
          /\ TickerHandler_all(ticker_pool, i) # <<>>
          /\ DOMAIN TickerHandler_all(ticker_pool, i)[1][i] = {last.key}

\* the identities the persisted record holds
PersistedKeys == {OrigKey(pk) : pk \in DOMAIN persisted.value}

\* the identities of the table, of the pool's timers and of the persisted
\* record that have the (callback, interval, tag) of store_key k
Registered(k) ==
    {k2 \in DOMAIN ticker_storage \cup TickerHandler_all_display(ticker_pool)
              \cup PersistedKeys : SameTriple(k2, k)}

\* C11: after remove(interval, callback, tag) has completed, no subscription
\* with that callback, interval and tag is left in the registry table, in a
\* timer of the pool or in the persisted record, whatever its durable flag.
C11_RemoveUnregisters ==
    (last.op = "remove" /\ last.raised = "") => Registered(last.key) = {}

\* C12: remove(interval, callback, tag) for an identity that is registered
\* neither in the table nor in the pool raises nothing and changes neither the
\* table, nor the pool (its timers, their subscriptions and running state),
\* nor the persisted record.
C12_RemoveUnknownIsNoOp ==
    [][ (/\ last'.op = "remove"
         /\ \A k \in DOMAIN ticker_storage \cup TickerHandler_all_display(ticker_pool) :
               ~SameTriple(k, last'.key))
        => /\ last'.raised = ""
           /\ UNCHANGED <<ticker_storage, ticker_pool, persisted>> ]_vars

\* remove of an unknown identity was called while another subscription was
\* registered and its timer running
C12_Witness ==
    /\ last.op = "remove" /\ ~last.existed /\ last.raised = ""
    /\ Registered(last.key) = {}
    /\ \E k \in DOMAIN ticker_storage :
          /\ k[4] \in DOMAIN Tickers /\ Tickers[k[4]].running
          /\ k \in DOMAIN Tickers[k[4]].subscriptions
    /\ persisted.saved

\* C13: clear(interval=I) removes exactly the subscriptions with interval I
\* from the table and from the pool and leaves those of every other interval
\* as they were (same identity, args and kwargs, same timer state); clear()
\* removes every subscription from both.
C13_ClearRemovesExactly ==
    [][ last'.op = "clear" =>
          IF last'.interval = NoNumber
          THEN /\ ticker_storage' = EmptyDict
               /\ TickerHandler_all_display(ticker_pool') = {}
          ELSE LET i == last'.interval[1]
                   others == {k \in DOMAIN ticker_storage : k[4] # i}
               IN /\ DOMAIN ticker_storage' = others
                  /\ \A k \in others :
                        IsPair(ticker_storage[k]) =>
                           /\ IsPair(ticker_storage'[k])
                           /\ SamePayload(ticker_storage'[k], ticker_storage[k])
                  /\ TickerHandler_all_display(ticker_pool') =
                        {k \in TickerHandler_all_display(ticker_pool) : k[4] # i}
                  /\ \A j \in DOMAIN Tickers \ {i} :
                        /\ j \in DOMAIN ticker_pool'.tickers
                        /\ ticker_pool'.tickers[j] = Tickers[j] ]_vars

\* C14: add with an interval that is zero or negative raises nothing and
\* changes neither the registry table, nor the persisted record, nor the pool.
C14_NonPositiveIntervalIsNoOp ==
    [][ (last'.op = "add" /\ last'.key # NoKey /\ last'.key[4] <= 0)
        => /\ last'.raised = ""
           /\ UNCHANGED <<ticker_storage, persisted, ticker_pool>> ]_vars

\* a callback that is neither a bound method of a persistable entity nor a
\* stand-alone function
Unclassifiable(callback) ==
    LET info == CallbackInfo[callback]
    IN /\ ~(info.callable /\ info.kind = "method" /\ HasDbKey(info.im_self))
       /\ ~(info.callable /\ info.kind = "function")

\* C15: add or remove with a callback that cannot be classified raises
\* nothing and leaves the table, the pool and the persisted record unchanged.
C15_UnclassifiableIsSilentNoOp ==
    [][ (last'.op \in {"add", "remove"} /\ Unclassifiable(last'.callback))
        => /\ last'.raised = ""
           /\ UNCHANGED <<ticker_storage, ticker_pool, persisted>> ]_vars

\* what the code does with a value that is not callable: add and remove
\* raise TypeError to the caller and leave the table, the pool and the
\* persisted record unchanged
C15_NonCallableRaisesTypeError ==
    [][ (last'.op \in {"add", "remove"} /\ ~IsCallable(last'.callback))
        => /\ last'.raised = "TypeError"
           /\ UNCHANGED <<ticker_storage, ticker_pool, persisted>> ]_vars

\* a store_key addressed by target and method name
ByMethod(k) == k[1] # NONE /\ k[2] # NONE

\* a store_key addressed by the path of a function
ByPath(k) == k[3] # NONE

\* C16: the key under which add has entered a subscription into the table or
\* into a timer has either target and method name, or the callable path, and
\* not both.
C16_ExactlyOneAddress ==
    (last.op = "add" /\ last.key # NoKey) =>
       \A k \in DOMAIN ticker_storage \cup TickerHandler_all_display(ticker_pool) :
          k = last.key => (ByMethod(k) /\ ~ByPath(k)) \/ (ByPath(k) /\ ~ByMethod(k))

\* C17: no payload of the persisted record holds the resolved callable
\* (_callback) or the live entity (_obj); it holds the caller's args and
\* kwargs and the start_delay override only.
C17_PersistedIsStripped ==
    \A pk \in DOMAIN persisted.value :
       DOMAIN persisted.value[pk].kwargs \cap {"_callback", "_obj"} = {}

\* the persisted record holds exactly the identities of the table, and no
\* record exists when the table is empty
PersistedMatchesTable ==
    /\ PersistedKeys = DOMAIN ticker_storage
    /\ ticker_storage = EmptyDict => ~persisted.saved

\* C18: after every add, every remove of a registered identity and every
\* clear that has completed (returned to its caller), the persisted record
\* holds exactly the identities of the registry table, and no record exists
\* when the table is empty.
C18_PersistedFollowsTable ==
    (/\ last.raised = ""
     /\ \/ last.op = "add" /\ last.key # NoKey
        \/ last.op = "remove" /\ last.existed
        \/ last.op = "clear") => PersistedMatchesTable

\* a remove of a registered identity has completed and left another
\* subscription registered and persisted
C18_Witness ==
    /\ last.op = "remove" /\ last.existed /\ last.raised = ""
    /\ ticker_storage # EmptyDict
    /\ persisted.saved
    /\ last.key \notin PersistedKeys

\* a persisted entry with a six-item key and an (args, kwargs) value
WellFormed(pk) == IsStoreKey(pk) /\ IsPair(persisted.value[pk])

\* the well-formed persisted entries that restore(server_reload) is to bring back
ToRestore == {pk \in DOMAIN persisted.value : WellFormed(pk) /\ (pk[6] \/ last.reload)}

\* C19: restore on a fresh registry lets no exception escape, whatever
\* malformed entry the record holds, and brings every well-formed entry into
\* the table and into the pool.
C19_MalformedEntryNeverAborts ==
    (last.op = "restore" /\ last.fresh /\ persisted.saved) =>
       /\ last.raised = ""
       /\ \A pk \in ToRestore :
             /\ UnpackKey(pk) \in DOMAIN ticker_storage
             /\ UnpackKey(pk) \in TickerHandler_all_display(ticker_pool)

\* the same for records whose only malformed entries have a malformed key
C19_MalformedKeyIsSkipped ==
    (/\ last.op = "restore" /\ last.fresh /\ persisted.saved
     /\ \A pk \in DOMAIN persisted.value : IsPair(persisted.value[pk])) =>
       /\ last.raised = ""
       /\ \A pk \in ToRestore :
             /\ UnpackKey(pk) \in DOMAIN ticker_storage
             /\ UnpackKey(pk) \in TickerHandler_all_display(ticker_pool)

\* the callable of store_key k can be resolved: its entity exists and has the
\* method, or its path names a function
Resolvable(k) ==
    \/ ByMethod(k) /\ k[1] \notin deleted /\ HasMethod(k[1], k[2])
    \/ ByPath(k) /\ variable_from_module(k[3]) # NONE

\* C20: after restore on a fresh registry no entry whose callable cannot be
\* resolved is in the registry table or in a timer of the pool.
C20_UnresolvableIsDropped ==
    (last.op = "restore" /\ last.fresh /\ persisted.saved) =>
       \A k \in DOMAIN ticker_storage \cup TickerHandler_all_display(ticker_pool) :
          Resolvable(k)

\* C21: at no time are two firings of the same timer under way: a firing of a
\* timer begins only when no earlier firing of that timer is still suspended.
C21_FiringsNeverOverlap ==
    \A f, g \in firings : f.interval = g.interval => f = g

\* C22: the periodic task of every timer is running if and only if the
\* timer's subscription mapping is not empty.
C22_RunningIffSubscribed ==
    \A i \in DOMAIN Tickers :
       Tickers[i].running <=> (Tickers[i].subscriptions # EmptyDict)

\* C25: every firing ends without an error, also one during which a
\* subscription was added to or removed from its timer, and leaves the timer
\* running when it has subscriptions.
C25_FiringSurvivesChanges ==
    [][ last'.op = "fire" =>
          LET t == ticker_pool'.tickers[last'.interval[1]]
          IN /\ last'.raised = ""
             /\ t.subscriptions # EmptyDict => t.running ]_vars

\* C23: after add has been called for an identity that is already registered,
\* the registry table and the timer's mapping hold the args and kwargs of that
\* call under the identity, and every firing invokes a subscriber with the
\* args and kwargs the table holds for it, which are those of the last add.
C23_UpsertLastWriteWins ==
    [][ /\ (last'.op = "add" /\ last'.existed) =>
              LET k == last'.key
              IN /\ SamePayload(ticker_storage'[k], last'.payload)
                 /\ k \in DOMAIN ticker_pool'.tickers[k[4]].subscriptions
                 /\ SamePayload(ticker_pool'.tickers[k[4]].subscriptions[k],
                                last'.payload)
        /\ last'.op = "fire" =>
              \A k \in DOMAIN last'.log :
                 (last'.log[k].called /\ k \in DOMAIN ticker_storage
                     /\ IsPair(ticker_storage[k])) =>
                    /\ last'.log[k].args = ticker_storage[k].args
                    /\ last'.log[k].kwargs = CallerKwargs(ticker_storage[k].kwargs) ]_vars

\* what does hold: an add for a registered identity that returns to its
\* caller has put the args and kwargs of the call into the table and into the
\* timer's mapping, in place of the earlier ones
C23_CompletedUpsertReplaces ==
    (last.op = "add" /\ last.raised = "" /\ last.existed) =>
       LET k == last.key
       IN /\ SamePayload(ticker_storage[k], last.payload)
          /\ k \in DOMAIN Tickers[k[4]].subscriptions
          /\ SamePayload(Tickers[k[4]].subscriptions[k], last.payload)

\* C24: a firing invokes each subscriber with the args and kwargs of its
\* subscription without the reserved fields (_callback, _obj, _start_delay
\* are never passed), and after the firing the subscriptions the timer still
\* holds have their _callback and _obj as before, whether the callable
\* returned, raised or was not invoked.
C24_ReservedFieldsStayInside ==
    [][ /\ (last'.op = "add" /\ last'.raised = "") =>
              LET k == last'.key
                  sub == ticker_pool'.tickers[k[4]].subscriptions[k]
              IN /\ sub.args = last'.payload.args
                 /\ CallerKwargs(sub.kwargs) = last'.payload.kwargs
                 /\ DOMAIN sub.kwargs =
                       DOMAIN last'.payload.kwargs \cup {"_callback", "_obj"}
        /\ last'.op = "fire" =>
          LET i == last'.interval[1]
              before == Tickers[i].subscriptions
              after == ticker_pool'.tickers[i].subscriptions
          IN /\ DOMAIN last'.log = DOMAIN before
             /\ \A k \in DOMAIN before :
                   /\ last'.log[k].called =>
                         /\ last'.log[k].args = before[k].args
                         /\ last'.log[k].kwargs = CallerKwargs(before[k].kwargs)
                         /\ DOMAIN last'.log[k].kwargs \cap ReservedKeys = {}
                   /\ k \in DOMAIN after =>
                         /\ {"_callback", "_obj"} \subseteq DOMAIN after[k].kwargs
                         /\ "_callback" \in DOMAIN before[k].kwargs =>
                               after[k] = before[k] ]_vars

\* a firing has invoked a subscriber that has caller kwargs, and one whose
\* call raised, and the timer holds both with their _callback afterwards
C24_Witness ==
    /\ last.op = "fire"
    /\ \E k1, k2 \in DOMAIN last.log :
          /\ last.log[k1].called /\ last.log[k1].kwargs = PayloadA.kwargs
          /\ last.log[k1].args = PayloadA.args
          /\ last.log[k2].result = "raise"
          /\ {k1, k2} \subseteq DOMAIN Tickers[last.interval[1]].subscriptions
          /\ IsCallable(Tickers[last.interval[1]].subscriptions[k2].kwargs["_callback"])

\* the start_delay values with which restore or add may have called
\* Ticker.add for interval i in the step just taken: those of the persisted
\* entries of that interval for restore, none (a full interval) for add
StartDelays(i) ==
    IF last'.op = "restore"
    THEN {persisted.value[pk].kwargs["_start_delay"] :
             pk \in {q \in DOMAIN persisted.value : q[4] = i}}
    ELSE {NoNumber}

\* C26: a timer that is started by an add is scheduled to fire first after
\* the start_delay of that add, or after a full interval when the add has
\* none (never at once); an add to a timer that is running leaves the time of
\* its pending firing as it is; after a firing the next one is a full interval
\* later.
C26_StartDelaySchedulesFirstFiring ==
    [][ \A i \in DOMAIN ticker_pool'.tickers :
           LET t == ticker_pool'.tickers[i]
               was == i \in DOMAIN Tickers /\ Tickers[i].running
           IN /\ (last'.op \in {"add", "restore"} /\ ~was /\ t.running) =>
                    /\ \E d \in StartDelays(i) :
                          t.remaining = IF d = NoNumber THEN i ELSE d[1]
                    /\ last'.op = "add" => t.remaining = i /\ t.remaining > 0
              /\ (last'.op \in {"add", "restore"} /\ was /\ t.running) =>
                    t.remaining = Tickers[i].remaining
              /\ (last'.op = "fire" /\ last'.interval = <<i>> /\ t.running) =>
                    /\ Tickers[i].remaining = 0
                    /\ t.remaining = i ]_vars

\* restore has started the timer of interval 2 with the start_delay 1 of a
\* persisted entry although the timer holds two subscriptions
C26_Witness ==
    /\ last.op = "restore"
    /\ 2 \in DOMAIN Tickers
    /\ Tickers[2].running /\ Tickers[2].remaining = 1
    /\ Cardinality(DOMAIN Tickers[2].subscriptions) = 2

\* an add has joined a running timer whose pending firing is less than a
\* full interval away
C26_WitnessJoin ==
    /\ last.op = "add" /\ last.raised = "" /\ ~last.existed
    /\ Tickers[last.key[4]].running
    /\ Tickers[last.key[4]].remaining < last.key[4]
    /\ Cardinality(DOMAIN Tickers[last.key[4]].subscriptions) = 2

\* C27: TickerPool.stop(I), as clear(I) calls it, clears and halts the timer
\* of interval I if the pool has one and leaves every other timer as it is,
\* also when the pool has no timer for I; TickerPool.stop() clears and halts
\* every timer.
C27_StopOnlyThatInterval ==
    [][ last'.op = "clear" =>
          IF last'.interval = NoNumber
          THEN \A j \in DOMAIN ticker_pool'.tickers :
                  /\ ticker_pool'.tickers[j].subscriptions = EmptyDict
                  /\ ~ticker_pool'.tickers[j].running
          ELSE LET i == last'.interval[1]
               IN /\ i \in DOMAIN Tickers =>
                        /\ ticker_pool'.tickers[i].subscriptions = EmptyDict
                        /\ ~ticker_pool'.tickers[i].running
                  /\ \A j \in DOMAIN Tickers \ {i} :
                        /\ j \in DOMAIN ticker_pool'.tickers
                        /\ ticker_pool'.tickers[j] = Tickers[j] ]_vars

\* the same for the calls in which the pool holds a timer for the interval
C27_StopOfExistingTimer ==
    [][ (last'.op = "clear" /\ last'.interval # NoNumber
            /\ last'.interval[1] \in DOMAIN Tickers) =>
          LET i == last'.interval[1]
          IN /\ ticker_pool'.tickers[i].subscriptions = EmptyDict
             /\ ~ticker_pool'.tickers[i].running
             /\ \A j \in DOMAIN Tickers \ {i} :
                   /\ j \in DOMAIN ticker_pool'.tickers
                   /\ ticker_pool'.tickers[j] = Tickers[j] ]_vars

\* C28: between operations the identities of the registry table are exactly
\* the identities subscribed to the timers of the pool.
C28_PoolMirrorsTable ==
    ~Starting => DOMAIN ticker_storage = TickerHandler_all_display(ticker_pool)

\* the part of C28 that concerns a firing: a firing leaves the two layers
\* with the same identities if they had the same before
C28_FiringKeepsMirror ==
    [][ (/\ last'.op = "fire"
         /\ DOMAIN ticker_storage = TickerHandler_all_display(ticker_pool))
        => DOMAIN ticker_storage' = TickerHandler_all_display(ticker_pool') ]_vars

\* C29: every timer the pool holds has at least one subscription, so that
\* the pool holds as many timers as there are intervals with subscriptions.
C29_NoEmptyTimerInPool ==
    /\ \A i \in DOMAIN Tickers : Tickers[i].subscriptions # EmptyDict
    /\ Cardinality(DOMAIN Tickers) =
          Cardinality({k[4] : k \in TickerHandler_all_display(ticker_pool)})

\* the part of C29 that concerns a firing: a firing leaves no timer without
\* subscriptions in the pool
C29_FiringLeavesNoEmptyTimer ==
    [][ last'.op = "fire" =>
          ticker_pool'.tickers[last'.interval[1]].subscriptions # EmptyDict ]_vars

\* the entity target of store_key k is absent or no longer persisted
TargetGone(k) == ~ByPath(k) /\ (k[1] = NONE \/ k[1] \in deleted)

\* C30: a firing removes a subscription only when its entity target is
\* absent or no longer persisted: a subscription addressed by a function path
\* and one whose entity exists stay subscribed, whatever their callback raises.
C30_RemovedOnlyWhenTargetGone ==
    [][ last'.op = "fire" =>
          LET i == last'.interval[1]
          IN \A k \in DOMAIN Tickers[i].subscriptions :
                k \notin DOMAIN ticker_pool'.tickers[i].subscriptions
                   => TargetGone(k) ]_vars

\* what does hold of a firing that runs alone: it removes a subscription only
\* when its target is gone or its callback has raised ObjectDoesNotExist
C30_RemovedWhenGoneOrDoesNotExist ==
    [][ last'.op = "fire" =>
          LET i == last'.interval[1]
          IN \A k \in DOMAIN Tickers[i].subscriptions :
                k \notin DOMAIN ticker_pool'.tickers[i].subscriptions
                   => TargetGone(k) \/ last'.log[k].result = "raise_dne" ]_vars

\* the identities that the table or a timer of the pool holds
Held(storage, pool) == DOMAIN storage \cup TickerHandler_all_display(pool)

\* the identity under which repeat registers _testrepeat for a session
RepeatKey(sessid, interval) ==
    <<NONE, NONE, "evennia.server.inputfuncs._testrepeat", interval, sessid, FALSE>>

\* C31: repeat registers a ticker only for a callback name of the _repeatable
\* whitelist (test1, test2), with the requested interval raised to at least 5
\* seconds, 60 when none is given, for the calling session; for any other
\* callback name the ticker handler (table, pool, persisted record) is left
\* unchanged.
C31_RepeatRegistersWhitelisted ==
    [][ \A sessid \in Sessids, kwargs \in RepeatKwargs :
          repeat(sessid, kwargs) =>
             LET name == IF kwargs.callback = <<>> THEN "" ELSE kwargs.callback[1]
                 asked == IF kwargs.interval = <<>> THEN 60 ELSE kwargs.interval[1]
                 interval == IF asked < 5 THEN 5 ELSE asked
                 stop == kwargs.stop = <<TRUE>>
             IN IF name \in {"test1", "test2"}
                THEN /\ interval >= 5
                     /\ Held(ticker_storage', ticker_pool') \ Held(ticker_storage, ticker_pool)
                           \subseteq {RepeatKey(sessid, interval)}
                     /\ (~stop /\ last'.raised = "") =>
                           /\ RepeatKey(sessid, interval) \in DOMAIN ticker_storage'
                           /\ interval \in DOMAIN ticker_pool'.tickers
                           /\ RepeatKey(sessid, interval) \in
                                 DOMAIN ticker_pool'.tickers[interval].subscriptions
                           /\ ticker_pool'.tickers[interval].running
                ELSE UNCHANGED <<ticker_storage, ticker_pool, persisted>> ]_vars

\* repeat has registered _testrepeat for one session at the lower limit of 5
\* seconds and for the other at the default of 60
C31_Witness ==
    /\ last.op = "add" /\ last.raised = ""
    /\ \E s1, s2 \in Sessids :
          /\ s1 # s2
          /\ DOMAIN ticker_storage = {RepeatKey(s1, 5), RepeatKey(s2, 60)}
          /\ TickerHandler_all_display(ticker_pool) = DOMAIN ticker_storage
          /\ Tickers[5].running /\ Tickers[60].running

\* C32: repeat with stop=True, or unrepeat, with the callback name and interval
\* of an earlier repeat of the same session completes without raising, and
\* afterwards neither the table nor a timer holds the subscription of
\* (callback, interval, session id).
C32_StopRemovesTicker ==
    [][ \A sessid \in Sessids, kwargs \in RepeatKwargs :
          LET name == IF kwargs.callback = <<>> THEN "" ELSE kwargs.callback[1]
              asked == IF kwargs.interval = <<>> THEN 60 ELSE kwargs.interval[1]
              key == RepeatKey(sessid, IF asked < 5 THEN 5 ELSE asked)
          IN (/\ \/ repeat(sessid, kwargs) /\ kwargs.stop = <<TRUE>>
                 \/ unrepeat(sessid, kwargs)
              /\ name \in {"test1", "test2"}
              /\ key \in Held(ticker_storage, ticker_pool))
             => /\ last'.raised = ""
                /\ key \notin Held(ticker_storage', ticker_pool') ]_vars

\* the message bodies of the data passed to lineSend for a session
Bodies(suid) == [i \in DOMAIN sent[suid] |-> jsonify(sent[suid][i])]

\* the messages buffered for a session
Buffered(suid) == DictGet(databuffer, suid, <<>>)

\* C33: for a connected session, every message passed to lineSend reaches the
\* client exactly once and in send order: what the client has received,
\* followed by what is buffered, is what was sent; a message sent while a
\* receive request waits is written to that request at once, and the request
\* is finished and forgotten; otherwise it is buffered, and each later receive
\* request returns the oldest buffered message alone.
C33_DeliveredOnceInOrder ==
    [][ \A suid \in Suids :
          (suid \in sessions /\ suid \in sessions') =>
             /\ Bodies(suid)' = got'[suid] \o Buffered(suid)'
             /\ (sent'[suid] # sent[suid] /\ suid \in DOMAIN requests) =>
                   /\ got'[suid] = Append(got[suid], Bodies(suid)'[Len(sent'[suid])])
                   /\ requests[suid] \notin DOMAIN pending'
                   /\ suid \notin DOMAIN requests'
                   /\ Buffered(suid)' = <<>>
             /\ (sent'[suid] # sent[suid] /\ suid \notin DOMAIN requests) =>
                   /\ got'[suid] = got[suid]
                   /\ Buffered(suid)' = Append(Buffered(suid), Bodies(suid)'[Len(sent'[suid])])
             /\ (got'[suid] # got[suid] /\ sent'[suid] = sent[suid]) =>
                   /\ Buffered(suid) # <<>>
                   /\ got'[suid] = Append(got[suid], Head(Buffered(suid)))
                   /\ Buffered(suid)' = Tail(Buffered(suid))
                   /\ pending' = pending ]_vars

\* a client has received the first of the two different messages sent to its
\* session, the second is buffered and no request waits
C33_Witness ==
    \E suid \in Suids :
       /\ suid \in sessions
       /\ Len(sent[suid]) = MaxSent
       /\ sent[suid][1] # sent[suid][2]
       /\ got[suid] = <<jsonify(sent[suid][1])>>
       /\ Buffered(suid) = <<jsonify(sent[suid][2])>>
       /\ suid \notin DOMAIN requests
       /\ pending = EmptyDict

\* the time since the keepalive record of a session was last set
IdleFor(suid) == now - last_alive[suid][1]

\* the keepalive record says that the session has been warned
Warned(suid) == last_alive[suid][2]

\* C34: a keepalive check sends one ajax_keepalive message to every session
\* whose client has made no request for more than the keepalive period and
\* marks it as warned; it disconnects a warned session, and removes its
\* keepalive record, when more than one period has passed since the warning
\* without a request; it leaves every other session as it is; and a keepalive,
\* input or receive request puts the session back to the not-yet-warned state
\* at the time of the request.
C34_KeepaliveWarnsThenDisconnects ==
    [][ /\ KeepaliveCheck =>
             \A suid \in DOMAIN last_alive :
                IF IdleFor(suid) > 30 /\ ~Warned(suid)
                THEN /\ sent'[suid] = Append(sent[suid], "ajax_keepalive")
                     /\ suid \in DOMAIN last_alive'
                     /\ last_alive'[suid] = <<now, TRUE>>
                     /\ suid \in sessions <=> suid \in sessions'
                ELSE IF IdleFor(suid) > 30 /\ Warned(suid)
                THEN /\ suid \notin sessions'
                     /\ suid \notin DOMAIN last_alive'
                ELSE /\ sent'[suid] = sent[suid]
                     /\ suid \in DOMAIN last_alive'
                     /\ last_alive'[suid] = last_alive[suid]
                     /\ suid \in sessions <=> suid \in sessions'
        /\ \A suid \in Suids :
              (mode_keepalive(suid) \/ mode_input(suid) \/ mode_receive(suid)) =>
                 /\ suid \in DOMAIN last_alive'
                 /\ last_alive'[suid] = <<now, FALSE>>
                 /\ suid \in sessions <=> suid \in sessions' ]_vars

\* one session was warned and then disconnected by a check; the other was
\* warned too, but its client made a request and it is still connected
C34_Witness ==
    \E s1, s2 \in issued :
       /\ s1 \notin sessions /\ s1 \notin DOMAIN last_alive
       /\ sent[s1] = <<"ajax_keepalive", "connection_close">>
       /\ s2 \in sessions /\ s2 \in DOMAIN last_alive
       /\ sent[s2] = <<"ajax_keepalive">>
       /\ ~Warned(s2)

\* the waiting requests that a client of the session made
PendingOf(suid) == {id \in DOMAIN pending : pending[id] = suid}

\* C35: a session never has both a waiting long-poll request and a non-empty
\* data buffer, and at most one waiting request is kept per session: the one
\* that self.requests holds (a newer receive request finishes the stale one
\* before it replaces it).
C35_RequestOrBufferNotBoth ==
    \A suid \in Suids :
       /\ ~(suid \in DOMAIN requests /\ Buffered(suid) # <<>>)
       /\ Cardinality(PendingOf(suid)) <= 1
       /\ suid \in DOMAIN requests => PendingOf(suid) = {requests[suid]}
       /\ suid \notin DOMAIN requests => PendingOf(suid) = {}

\* a receive request of one session waits, with nothing buffered, after the
\* session's first message was received, while the other session has two
\* buffered messages and no request
C35_Witness ==
    \E s1, s2 \in sessions :
       /\ s1 \in DOMAIN requests /\ PendingOf(s1) = {requests[s1]}
       /\ Buffered(s1) = <<>> /\ Len(got[s1]) = 1
       /\ s2 \notin DOMAIN requests /\ Len(Buffered(s2)) = 2

\* the keepalive loop runs exactly while keepalive records exist
LoopRunsIffRecords == keep_alive # NoNumber <=> last_alive # EmptyDict

\* a session that was disconnected has neither keepalive record nor buffer
DisconnectedLeaveNothing ==
    \A suid \in issued \ sessions :
       suid \notin DOMAIN last_alive /\ suid \notin DOMAIN databuffer

\* C36: after any sequence of init, keepalive, input, receive and close
\* requests, session disconnects and keepalive checks, the keepalive loop is
\* running if and only if the last_alive table is non-empty, and a session that
\* has been disconnected leaves no keepalive record and no data buffer behind.
C36_KeepaliveLoopFollowsRecords ==
    LoopRunsIffRecords /\ DisconnectedLeaveNothing

\* the first half of C36 alone
C36_LoopRunsIffRecords == LoopRunsIffRecords

\* the second half of C36 alone, for the record and for the buffer
C36_NoRecordLeftByDisconnect ==
    \A suid \in issued \ sessions : suid \notin DOMAIN last_alive

C36_NoBufferLeftByDisconnect ==
    \A suid \in issued \ sessions : suid \notin DOMAIN databuffer

====
